---- MODULE Spec2Model ----
(***************************************************************************)
(* Trace recording, run context and finish pipeline of the observability   *)
(* layer (src/tracing/context.py, with the parts of writer.py and          *)
(* calibration_flags.py that TraceContext.finish calls).                   *)
(*                                                                         *)
(* Python values are modelled as follows.  A dict is a function from a     *)
(* finite set of string keys; None, True, False and numbers stored in      *)
(* dicts are the strings "None", "True", "False", "0", ...; a list is a    *)
(* sequence.  An Optional argument is a record [none, v].  A timestamp is  *)
(* "None" or the token TS; a duration is "None" or the token DUR.  Trace   *)
(* objects live in the sequence traces, and a reference to a trace is its  *)
(* index there (0 is the None reference).                                  *)
(***************************************************************************)
EXTENDS Integers, Sequences, FiniteSets, TLC

VARIABLES
    traces,     \* every Trace object created so far, by reference
    owner,      \* owner[k]: the logical run (asyncio task) that created traces[k]
    current,    \* current[r]: value of the ContextVar _current_trace in task r's context
    pc,         \* pc[r]: where task r stands ("idle", or an await point inside finish)
    fin,        \* fin[r]: locals of task r's running finish() call
    ret,        \* ret[r]: result map of the last finish() call that returned in task r
    rows,       \* the traces table: trace_id -> row
    files,      \* the artifact files: trace_id -> written document
    hist,       \* hist[k]: history of the calls made on traces[k] (for stating properties)
    expect,     \* expect[r]: the trace task r itself last bound (for stating properties)
    calls       \* number of recording calls made so far (bounds the exploration)

vars == <<traces, owner, current, pc, fin, ret, rows, files, hist, expect, calls>>

----------------------------------------------------------------------------
(* Bounds of the exploration *)

NumRuns == 2
MaxTraces == 2
MaxCalls == 5

----------------------------------------------------------------------------
(* Values *)

SCHEMA_VERSION == 1

Runs == 1..NumRuns
NoTrace == 0
NONE == "None"
TS == "ts"
DUR == "dur"

\* Instants, as tokens in their order: T_OLD lies more than seven days before
\* the run, T_PREV within the last seven days and before it, TS is the time
\* of the run itself ("None" is no instant).
T_OLD == "t_old"
T_PREV == "t_prev"
TimeRank(ts) == IF ts = T_OLD THEN 0 ELSE IF ts = T_PREV THEN 1 ELSE 2
\* Mutant: the window leaves out the runs started at the present time.
Recent_BeforeNow(ts) == ts = T_PREV
\* started_at > NOW() - make_interval(days => 7)
Recent(ts) == ts \in {T_PREV, TS}
\* started_at < before
Earlier(ts, before) == ts # NONE /\ before # NONE /\ TimeRank(ts) < TimeRank(before)
EmptyMap == << >>

StageNames == {"intake", "quality_gate"}
QG == "quality_gate"

NoneArg == [none |-> TRUE, v |-> EmptyMap]
Some(m) == [none |-> FALSE, v |-> m]

\* Python truthiness of a value stored in a dict.
Falsy(v) == v \in {"None", "False", "0", ""}

\* Python truthiness of an Optional[dict] argument: None and {} are falsy.
TruthyMap(a) == ~a.none /\ DOMAIN a.v # {}

\* Python truthiness of an Optional[str] argument: None and "" are falsy.
TruthyStr(s) == s \notin {"None", ""}

\* dict.get(key, default)
Get(d, k, default) == IF k \in DOMAIN d THEN d[k] ELSE default

\* d[k] = v
Put(d, k, v) == (k :> v) @@ d

TraceId(k) == "trc_" \o ToString(k)
NoopId == "noop"

----------------------------------------------------------------------------
(* StageTrace and Decision *)

StageTrace(name, started) ==
    [ name |-> name, started_at |-> started, completed_at |-> NONE,
      duration_seconds |-> NONE, decisions |-> << >>, outputs |-> EmptyMap,
      evidence |-> EmptyMap, prompts |-> EmptyMap, error |-> NONE ]

Decision(decision_type, data) ==
    [ decision |-> decision_type,
      what |-> Get(data, "what", NONE),
      why |-> Get(data, "why", ""),
      confidence |-> Get(data, "confidence", "1.0"),
      alternatives_considered |-> Get(data, "alternatives_considered", << >>),
      inputs |-> Get(data, "inputs", EmptyMap),
      timestamp |-> TS ]

\* The stages dict keeps insertion order: a sequence of StageTrace, keyed by name.
StageKeys(t) == { t.stages[i].name : i \in DOMAIN t.stages }
HasStage(t, s) == s \in StageKeys(t)
StageIdx(t, s) == CHOOSE i \in DOMAIN t.stages : t.stages[i].name = s
StageOf(t, s) == t.stages[StageIdx(t, s)]

\* self.stages[name] = st : replaces in place, or appends a new key.
SetStage(t, s, st) ==
    IF HasStage(t, s)
    THEN [t EXCEPT !.stages[StageIdx(t, s)] = st]
    ELSE [t EXCEPT !.stages = Append(@, st)]

----------------------------------------------------------------------------
(* Trace: construction *)

NewTrace(id) ==
    [ noop |-> FALSE, trace_id |-> id, project_id |-> NONE,
      intent |-> NONE, domain |-> NONE, status |-> "in_progress",
      started_at |-> TS, completed_at |-> NONE, duration_seconds |-> NONE,
      stages |-> << >>, iterations |-> << >>,
      iteration_count |-> 1, quality_gate_failures |-> 0,
      outputs |-> EmptyMap, start_time |-> TRUE, stage_start_times |-> {} ]

NoOpTrace ==
    [ noop |-> TRUE, trace_id |-> NoopId, project_id |-> NONE,
      intent |-> NONE, domain |-> NONE, status |-> "disabled",
      started_at |-> NONE, completed_at |-> NONE, duration_seconds |-> NONE,
      stages |-> << >>, iterations |-> << >>,
      iteration_count |-> 1, quality_gate_failures |-> 0,
      outputs |-> EmptyMap, start_time |-> FALSE, stage_start_times |-> {} ]

----------------------------------------------------------------------------
(* Trace: recording methods *)

\* Mutant: an existing stage keeps what it holds, only its start is reset.
Trace_start_stage_Keep(t, s) ==
    [ SetStage(t, s, IF HasStage(t, s)
                     THEN [StageOf(t, s) EXCEPT !.started_at = TS,
                                                !.completed_at = NONE,
                                                !.duration_seconds = NONE]
                     ELSE StageTrace(s, TS))
        EXCEPT !.stage_start_times = @ \cup {s} ]

Trace_start_stage(t, s) ==
    [ SetStage(t, s, StageTrace(s, TS))
        EXCEPT !.stage_start_times = @ \cup {s} ]

\* Mutant: stage.outputs.update(outputs).
Trace_end_stage_Merge(t, s, outputs, error) ==
    IF ~HasStage(t, s) THEN t
    ELSE LET st0 == StageOf(t, s)
             st1 == [st0 EXCEPT !.completed_at = TS]
             st2 == IF s \in t.stage_start_times
                    THEN [st1 EXCEPT !.duration_seconds = DUR] ELSE st1
             st3 == IF TruthyMap(outputs)
                    THEN [st2 EXCEPT !.outputs = outputs.v @@ @] ELSE st2
             st4 == IF TruthyStr(error)
                    THEN [st3 EXCEPT !.error = error] ELSE st3
         IN SetStage(t, s, st4)

Trace_end_stage(t, s, outputs, error) ==
    IF ~HasStage(t, s) THEN t
    ELSE LET st0 == StageOf(t, s)
             st1 == [st0 EXCEPT !.completed_at = TS]
             st2 == IF s \in t.stage_start_times
                    THEN [st1 EXCEPT !.duration_seconds = DUR] ELSE st1
             st3 == IF TruthyMap(outputs)
                    THEN [st2 EXCEPT !.outputs = outputs.v] ELSE st2
             st4 == IF TruthyStr(error)
                    THEN [st3 EXCEPT !.error = error] ELSE st3
         IN SetStage(t, s, st4)

\* Auto-creates the stage, without a start timestamp, when it does not exist.
AutoCreate(t, s) ==
    IF HasStage(t, s) THEN t ELSE SetStage(t, s, StageTrace(s, NONE))

\* Mutant: decisions.insert(0, decision).
Trace_record_Prepend(t, s, decision_type, data) ==
    LET t1 == AutoCreate(t, s)
    IN [t1 EXCEPT !.stages[StageIdx(t1, s)].decisions =
                        << Decision(decision_type, data) >> \o @]

Trace_record(t, s, decision_type, data) ==
    LET t1 == AutoCreate(t, s)
    IN [t1 EXCEPT !.stages[StageIdx(t1, s)].decisions =
                        Append(@, Decision(decision_type, data))]

Trace_record_evidence(t, s, evidence_data) ==
    LET t1 == AutoCreate(t, s)
    IN [t1 EXCEPT !.stages[StageIdx(t1, s)].evidence = evidence_data]

Trace_record_prompts(t, s, prompts) ==
    LET t1 == AutoCreate(t, s)
    IN [t1 EXCEPT !.stages[StageIdx(t1, s)].prompts = prompts]

\* Mutant: the counter is incremented instead of recomputed from the list.
Trace_record_iteration_Incr(t, iteration_data) ==
    [t EXCEPT !.iterations = Append(@, iteration_data),
              !.iteration_count = @ + 1,
              !.quality_gate_failures =
                  IF Falsy(Get(iteration_data, "passed", "True"))
                  THEN @ + 1 ELSE @]

\* Mutant: a missing pass flag is read as None (get without the default).
Trace_record_iteration_NoDefault(t, iteration_data) ==
    LET its == Append(t.iterations, iteration_data)
    IN [t EXCEPT !.iterations = its,
                 !.iteration_count = Len(its),
                 !.quality_gate_failures =
                     IF Falsy(Get(iteration_data, "passed", "None"))
                     THEN @ + 1 ELSE @]

Trace_record_iteration(t, iteration_data) ==
    LET its == Append(t.iterations, iteration_data)
    IN [t EXCEPT !.iterations = its,
                 !.iteration_count = Len(its),
                 !.quality_gate_failures =
                     IF Falsy(Get(iteration_data, "passed", "True"))
                     THEN @ + 1 ELSE @]

Trace_set_outputs(t, outputs) == [t EXCEPT !.outputs = outputs]

\* completed_at = now; duration_seconds set only when _start_time is truthy.
Stamp(t, status) ==
    [t EXCEPT !.status = status, !.completed_at = TS,
              !.duration_seconds = IF t.start_time THEN DUR ELSE @]

Trace_mark_complete(t) == Stamp(t, "complete")

\* Mutant: the error is stored only when no error is stored yet (setdefault).
Trace_mark_failed_KeepFirst(t, error) ==
    [Stamp(t, "failed") EXCEPT !.outputs = @ @@ ("error" :> error)]

Trace_mark_failed(t, error) ==
    [Stamp(t, "failed") EXCEPT !.outputs = Put(@, "error", error)]

\* Mutant: the status written is the default one.
Trace_mark_incomplete_Reopen(t) == Stamp(t, "in_progress")

Trace_mark_incomplete(t) == Stamp(t, "incomplete")

----------------------------------------------------------------------------
(* _NoOpTrace: every recording method is `pass` *)

NoOp_start_stage(t, s) == t
NoOp_end_stage(t, s, outputs, error) == t
NoOp_record(t, s, decision_type, data) == t
NoOp_record_evidence(t, s, evidence_data) == t
NoOp_record_prompts(t, s, prompts) == t
\* Mutant: the override is missing and the method of Trace is inherited.
NoOp_record_iteration_Inherited(t, iteration_data) ==
    Trace_record_iteration(t, iteration_data)

NoOp_record_iteration(t, iteration_data) == t
NoOp_set_outputs(t, outputs) == t
NoOp_mark_complete(t) == t
NoOp_mark_failed(t, error) == t
NoOp_mark_incomplete(t) == t

\* Method dispatch on the object's class.
start_stage(t, s) ==
    IF t.noop THEN NoOp_start_stage(t, s) ELSE Trace_start_stage(t, s)
end_stage(t, s, o, e) ==
    IF t.noop THEN NoOp_end_stage(t, s, o, e) ELSE Trace_end_stage(t, s, o, e)
record(t, s, d, data) ==
    IF t.noop THEN NoOp_record(t, s, d, data) ELSE Trace_record(t, s, d, data)
record_evidence(t, s, ev) ==
    IF t.noop THEN NoOp_record_evidence(t, s, ev) ELSE Trace_record_evidence(t, s, ev)
record_prompts(t, s, p) ==
    IF t.noop THEN NoOp_record_prompts(t, s, p) ELSE Trace_record_prompts(t, s, p)
record_iteration(t, d) ==
    IF t.noop THEN NoOp_record_iteration(t, d) ELSE Trace_record_iteration(t, d)
set_outputs(t, o) ==
    IF t.noop THEN NoOp_set_outputs(t, o) ELSE Trace_set_outputs(t, o)
mark_complete(t) ==
    IF t.noop THEN NoOp_mark_complete(t) ELSE Trace_mark_complete(t)
mark_failed(t, e) ==
    IF t.noop THEN NoOp_mark_failed(t, e) ELSE Trace_mark_failed(t, e)
mark_incomplete(t) ==
    IF t.noop THEN NoOp_mark_incomplete(t) ELSE Trace_mark_incomplete(t)

----------------------------------------------------------------------------
(* Serialization and persistence (writer.py) *)

to_dict(t) ==
    [ schema_version |-> SCHEMA_VERSION,
      trace_id |-> t.trace_id,
      project_id |-> t.project_id,
      run |-> [ intent |-> t.intent, domain |-> t.domain,
                started_at |-> t.started_at, completed_at |-> t.completed_at,
                duration_seconds |-> t.duration_seconds, status |-> t.status ],
      stages |-> [ i \in DOMAIN t.stages |->
                     [ name |-> t.stages[i].name,
                       started_at |-> t.stages[i].started_at,
                       completed_at |-> t.stages[i].completed_at,
                       duration_seconds |-> t.stages[i].duration_seconds,
                       decisions |-> t.stages[i].decisions,
                       outputs |-> t.stages[i].outputs,
                       evidence |-> t.stages[i].evidence,
                       prompts |-> t.stages[i].prompts,
                       error |-> t.stages[i].error ] ],
      iterations |-> t.iterations,
      iteration_count |-> t.iteration_count,
      quality_gate_failures |-> t.quality_gate_failures,
      outputs |-> t.outputs,
      metadata |-> [ trace_version |-> SCHEMA_VERSION,
                     generator |-> "ire-observability-v1" ] ]

\* Values of types the JSON encoder does not know, as tokens: a datetime
\* and a pathlib.Path.  Every other scalar of the model is a str, a number,
\* a bool or None.
DT == "datetime(2026, 1, 1)"
PATH_OBJ == "Path('report.md')"
NonNative == {DT, PATH_OBJ}

py_str(v) == IF v = DT THEN "2026-01-01 00:00:00" ELSE "report.md"
py_repr(v) == IF v = DT THEN "datetime.datetime(2026, 1, 1, 0, 0)"
                        ELSE "PosixPath('report.md')"

\* Mutant: default=repr.
json_default_Repr(v) == py_repr(v)

\* default=str: called by the encoder for an object it cannot serialize.
json_default(v) == py_str(v)

\* A scalar as the parsed file holds it: a native value is written and
\* parsed back as itself, any other goes through default.
json_scalar(v) == IF v \in NonNative THEN json_default(v) ELSE v

\* Keys whose values are lists or dicts (of native values): written and
\* parsed back as they are.
Composite == {"gap_principles", "principle_scores", "alternatives_considered",
              "inputs"}

\* A dict with str keys.
json_dict(m) ==
    [ k \in DOMAIN m |-> IF k \in Composite THEN m[k] ELSE json_scalar(m[k]) ]

json_decision(d) ==
    [d EXCEPT !.what = json_scalar(@), !.why = json_scalar(@),
              !.confidence = json_scalar(@)]

json_stage(st) ==
    [st EXCEPT !.decisions = [ i \in DOMAIN st.decisions |->
                                 json_decision(st.decisions[i]) ],
               !.outputs = json_dict(@),
               !.evidence = json_dict(@),
               !.prompts = json_dict(@)]

\* json.dump(d, f, indent=2, default=str) of a to_dict() document, as the
\* document json.load reads from the file.
json_dump(d) ==
    [d EXCEPT !.stages = [ i \in DOMAIN d.stages |-> json_stage(d.stages[i]) ],
              !.iterations = [ i \in DOMAIN d.iterations |->
                                 json_dict(d.iterations[i]) ],
              !.outputs = json_dict(@)]

\* The document write_trace_file stores.
write_trace_file(t) == json_dump(to_dict(t))

\* brain/projects/unknown/_traces/{trace_id}.json (no project name is given to start()).
TracePath(t) == "unknown/_traces/" \o t.trace_id \o ".json"
SummaryPath(t) == "unknown/_traces/" \o t.trace_id \o "_summary.md"
AlertPath == "unknown/_calibration_alerts.md"

\* A nullable numeric column or result is the set of its values: {} is
\* NULL / None, {n} is the number n.  Scores are counted in tenths.
Null == {}
NotNull(x) == x # Null
Val(x) == CHOOSE v \in x : TRUE

\* The quality-gate columns of the row; an absent list is the empty sequence.
extract_quality_gate_data(t) ==
    IF ~HasStage(t, QG)
    THEN [ quality_gate_passed |-> NONE, overall_quality_score |-> Null,
           gap_principles |-> << >> ]
    ELSE LET o == StageOf(t, QG).outputs
         IN [ quality_gate_passed |->
                  IF "passed" \in DOMAIN o
                  THEN (IF Falsy(o["passed"]) THEN "False" ELSE "True")
                  ELSE NONE,
              overall_quality_score |->
                  IF "overall_score" \in DOMAIN o THEN {o["overall_score"]} ELSE Null,
              gap_principles |-> Get(o, "gap_principles", << >>) ]

\* synthesis_cost_usd: outputs["cost_usd"] of the synthesis stage, if any.
extract_synthesis_cost(t) ==
    IF ~HasStage(t, "synthesis") THEN Null
    ELSE LET o == StageOf(t, "synthesis").outputs
         IN IF "cost_usd" \in DOMAIN o THEN {o["cost_usd"]} ELSE Null

\* The row write_trace_metadata inserts: flagged_for_review is always FALSE.
RowOf(t) ==
    LET qg == extract_quality_gate_data(t)
    IN [ trace_id |-> t.trace_id, project_id |-> t.project_id,
         intent |-> t.intent, domain |-> t.domain, status |-> t.status,
         quality_gate_passed |-> qg.quality_gate_passed,
         overall_quality_score |-> qg.overall_quality_score,
         gap_principles |-> qg.gap_principles,
         started_at |-> t.started_at,
         duration_seconds |-> IF t.duration_seconds = NONE THEN Null
                              ELSE {t.duration_seconds},
         synthesis_cost_usd |-> extract_synthesis_cost(t),
         iteration_count |-> t.iteration_count,
         quality_gate_failures |-> t.quality_gate_failures,
         trace_file_path |-> Get(t.outputs, "trace_file_path", NONE),
         flagged_for_review |-> FALSE ]

----------------------------------------------------------------------------
(* Calibration flags (calibration_flags.py).  The historical lookups are   *)
(* the queries the code issues, evaluated over the traces table db; fail   *)
(* is the set of lookups that raise during one call.  A block of code that *)
(* may raise evaluates to [raised, flags].                                 *)

REPEAT_MIN == 3
LOW_SCORE == 2
DEFAULT_SCORE == 3
\* 0.5, in tenths of a score point
DISPARITY == 5

Range(seq) == { seq[i] : i \in DOMAIN seq }

\* principle_scores: absent, a list of records, or a flat (ordered) dict.
NoScores == [ shape |-> "none", list |-> << >>, map |-> << >> ]
ScoreList(items) == [ shape |-> "list", list |-> items, map |-> << >> ]
ScoreMap(entries) == [ shape |-> "dict", list |-> << >>, map |-> entries ]
\* An element of the list: a dict, or something that is not a dict.
Item(d) == [ isdict |-> TRUE, d |-> d ]
NotADict == [ isdict |-> FALSE, d |-> EmptyMap ]
Entry(id, score) == [ id |-> id, score |-> score ]

\* for item in principle_scores: ... gap_principles.append(pid)
RECURSIVE AddLowList(_, _)
AddLowList(gaps, items) ==
    IF items = << >> THEN gaps
    ELSE LET item == Head(items)
             low == item.isdict /\ Get(item.d, "score", DEFAULT_SCORE) < LOW_SCORE
             pid == Get(item.d, "id", NONE)
             g2 == IF low /\ ~Falsy(pid) /\ pid \notin Range(gaps)
                   THEN Append(gaps, pid) ELSE gaps
         IN AddLowList(g2, Tail(items))

\* for pid, score in principle_scores.items(): ... gap_principles.append(pid)
RECURSIVE AddLowMap(_, _)
AddLowMap(gaps, entries) ==
    IF entries = << >> THEN gaps
    ELSE LET e == Head(entries)
             g2 == IF e.score < LOW_SCORE /\ e.id \notin Range(gaps)
                   THEN Append(gaps, e.id) ELSE gaps
         IN AddLowMap(g2, Tail(entries))

\* The candidate gap list: the explicit list, then the low-scored principles.
gap_candidates(o) ==
    LET explicit == Get(o, "gap_principles", << >>)
        ps == Get(o, "principle_scores", NoScores)
    IN IF ps.shape = "list" THEN AddLowList(explicit, ps.list)
       ELSE IF ps.shape = "dict" THEN AddLowMap(explicit, ps.map)
       ELSE explicit

\* The trace after check_calibration_flags: `outputs.get("gap_principles")
\* or []` is the stored list itself when that list is non-empty, and the
\* appends then change the stage's outputs; an absent or empty list is
\* replaced by a fresh one.
calibration_trace(t) ==
    IF ~HasStage(t, QG) THEN t
    ELSE LET st == StageOf(t, QG)
         IN IF Get(st.outputs, "gap_principles", << >>) = << >> THEN t
            ELSE SetStage(t, QG,
                     [st EXCEPT !.outputs =
                          Put(@, "gap_principles", gap_candidates(st.outputs))])

Ok(flags) == [ raised |-> FALSE, flags |-> flags ]
Raised == [ raised |-> TRUE, flags |-> << >> ]

\* Mutant: no except clause, the exception propagates.
Try_NoExcept(body) == body

\* try: body / except Exception: logger.warning(...)
Try(body) == IF body.raised THEN Ok(<< >>) ELSE body

\* Two blocks in sequence: an exception of the first skips the second.
Then(a, b) ==
    IF a.raised THEN Raised
    ELSE IF b.raised THEN Raised
    ELSE Ok(a.flags \o b.flags)

Flag(kind, subject, count) == [ kind |-> kind, subject |-> subject, count |-> count ]

\* The names of the lookups of one call.
LookupCount(p) == "count:" \o p

\* Mutant: the count is taken over the runs of every status.
recent_failure_count_AnyStatus(db, p) ==
    Cardinality({ id \in DOMAIN db :
                    /\ p \in Range(db[id].gap_principles)
                    /\ Recent(db[id].started_at) })

\* SELECT COUNT(*) FROM traces WHERE p = ANY(gap_principles) AND started_at
\* within the last 7 days AND status = 'complete'.
recent_failure_count(db, p) ==
    Cardinality({ id \in DOMAIN db :
                    /\ p \in Range(db[id].gap_principles)
                    /\ Recent(db[id].started_at)
                    /\ db[id].status = "complete" })

RECURSIVE SumScores(_, _)
SumScores(db, ids) ==
    IF ids = {} THEN 0
    ELSE LET id == CHOOSE i \in ids : TRUE
         IN Val(db[id].overall_quality_score) + SumScores(db, ids \ {id})

\* AVG(overall_quality_score) over the rows ids: [n, sum]; None when n = 0.
AvgOf(db, ids) == [ n |-> Cardinality(ids), sum |-> SumScores(db, ids) ]

Scored(db) ==
    { id \in DOMAIN db : db[id].status = "complete"
                         /\ NotNull(db[id].overall_quality_score) }

intent_avg_score(db, intent) ==
    AvgOf(db, { id \in Scored(db) : db[id].intent = intent })

domain_avg_score(db, domain) ==
    AvgOf(db, { id \in Scored(db) : db[id].domain = domain })

overall_avg_score(db) == AvgOf(db, Scored(db))

\* Mutant: the comparison is >= 0.5.
Disparity_AtLeast(overall, part) ==
    /\ overall.n > 0 /\ part.n > 0
    /\ overall.sum * part.n - part.sum * overall.n >= DISPARITY * overall.n * part.n

\* both averages are not None and overall_avg - part_avg > 0.5
Disparity(overall, part) ==
    /\ overall.n > 0 /\ part.n > 0
    /\ overall.sum * part.n - part.sum * overall.n > DISPARITY * overall.n * part.n

\* Mutant: no ORDER BY started_at DESC LIMIT 1, any earlier complete row of
\* the project may be the one returned.
previous_trace_for_project_Any(db, project_id, before) ==
    { id \in DOMAIN db : /\ db[id].project_id = project_id
                          /\ db[id].status = "complete"
                          /\ Earlier(db[id].started_at, before) }

\* The most recent complete row of the project that started before `before`
\* (no two rows of one project start at the same instant): a set of at most
\* one trace id.
previous_trace_for_project(db, project_id, before) ==
    LET cand == { id \in DOMAIN db : /\ db[id].project_id = project_id
                                     /\ db[id].status = "complete"
                                     /\ Earlier(db[id].started_at, before) }
    IN { id \in cand : \A o \in cand :
                           TimeRank(db[o].started_at) <= TimeRank(db[id].started_at) }

\* Check 1: one fault-isolated count lookup per candidate principle.
RECURSIVE RepeatFlags(_, _, _)
RepeatFlags(db, gaps, fail) ==
    IF gaps = << >> THEN Ok(<< >>)
    ELSE LET p == Head(gaps)
             n == recent_failure_count(db, p)
             body == IF LookupCount(p) \in fail THEN Raised
                     ELSE IF n >= REPEAT_MIN THEN Ok(<< Flag("repeated", p, n) >>)
                     ELSE Ok(<< >>)
         IN Then(Try(body), RepeatFlags(db, Tail(gaps), fail))

\* Check 2: intent quality disparity.
IntentFlags(t, db, fail) ==
    IF ~TruthyStr(t.intent) THEN Ok(<< >>)
    ELSE Try(IF {"intent_avg", "intent_overall"} \cap fail # {} THEN Raised
             ELSE IF Disparity(overall_avg_score(db), intent_avg_score(db, t.intent))
                  THEN Ok(<< Flag("intent_disparity", t.intent, 0) >>)
                  ELSE Ok(<< >>))

\* Check 3: domain quality disparity.
DomainFlags(t, db, fail) ==
    IF ~TruthyStr(t.domain) THEN Ok(<< >>)
    ELSE Try(IF {"domain_avg", "domain_overall"} \cap fail # {} THEN Raised
             ELSE IF Disparity(overall_avg_score(db), domain_avg_score(db, t.domain))
                  THEN Ok(<< Flag("domain_disparity", t.domain, 0) >>)
                  ELSE Ok(<< >>))

\* Check 4: quality gate regression (qg_passed is False, not merely falsy).
RegressionFlags(t, db, fail) ==
    IF ~(/\ Get(StageOf(t, QG).outputs, "passed", NONE) = "False"
         /\ TruthyStr(t.project_id) /\ TruthyStr(t.started_at))
    THEN Ok(<< >>)
    ELSE Try(IF "previous" \in fail THEN Raised
             ELSE LET prev == previous_trace_for_project(db, t.project_id, t.started_at)
                  IN IF \E id \in prev : db[id].quality_gate_passed = "True"
                     THEN Ok(<< Flag("regression", t.project_id, 0) >>)
                     ELSE Ok(<< >>))

\* check_calibration_flags(trace), with the lookups in fail raising: the
\* list of flags, or an exception that reaches the caller.
check_calibration_flags(t, db, fail) ==
    IF ~HasStage(t, QG) THEN Ok(<< >>)
    ELSE Then(RepeatFlags(db, gap_candidates(StageOf(t, QG).outputs), fail),
         Then(IntentFlags(t, db, fail),
         Then(DomainFlags(t, db, fail), RegressionFlags(t, db, fail))))

Principles == {"P1", "P2"}
Lookups == { LookupCount(p) : p \in Principles }
               \cup {"intent_avg", "intent_overall", "domain_avg", "domain_overall",
                     "previous"}

----------------------------------------------------------------------------
(* The stage-derived fields of the row (writer.py), each as a nullable     *)
(* value: {} is None, {v} is the value v                                   *)

ProjStages == {"intake", "rubric", "collection", "synthesis", "quality_gate"}

Opt(d, k) == IF k \in DOMAIN d THEN {d[k]} ELSE Null

\* _extract_stage_duration(trace, stage_name)
extract_stage_duration(t, s) ==
    IF HasStage(t, s) /\ StageOf(t, s).duration_seconds # NONE
    THEN {StageOf(t, s).duration_seconds} ELSE Null

\* d[id] = score on an insertion-ordered dict kept as a sequence of entries.
DictSet(entries, id, score) ==
    IF \E i \in DOMAIN entries : entries[i].id = id
    THEN [ i \in DOMAIN entries |->
             IF entries[i].id = id THEN Entry(id, score) ELSE entries[i] ]
    ELSE Append(entries, Entry(id, score))

\* {item["id"]: item["score"] for item in raw_scores
\*  if isinstance(item, dict) and "id" in item and "score" in item}
RECURSIVE FlattenScores(_, _)
FlattenScores(acc, items) ==
    IF items = << >> THEN acc
    ELSE LET item == Head(items)
             keep == item.isdict /\ {"id", "score"} \subseteq DOMAIN item.d
         IN FlattenScores(IF keep THEN DictSet(acc, item.d["id"], item.d["score"])
                                  ELSE acc,
                          Tail(items))

\* _extract_quality_gate_data: principle_scores, gap_principles and
\* strength_principles (all None without the stage).
extract_quality_gate_lists(t) ==
    IF ~HasStage(t, QG)
    THEN [ principle_scores |-> Null, gap_principles |-> Null,
           strength_principles |-> Null ]
    ELSE LET o == StageOf(t, QG).outputs
             ps == Get(o, "principle_scores", NoScores)
         IN [ principle_scores |->
                  IF ps.shape = "list" THEN {FlattenScores(<< >>, ps.list)}
                  ELSE IF ps.shape = "dict" THEN {ps.map}
                  ELSE Null,
              gap_principles |-> Opt(o, "gap_principles"),
              strength_principles |-> Opt(o, "strength_principles") ]

\* _extract_synthesis_data
extract_synthesis_data(t) ==
    IF ~HasStage(t, "synthesis")
    THEN [ synthesis_model |-> Null, synthesis_input_tokens |-> Null,
           synthesis_output_tokens |-> Null, synthesis_cost_usd |-> Null ]
    ELSE LET o == StageOf(t, "synthesis").outputs
             token_usage == Get(o, "token_usage", EmptyMap)
         IN [ synthesis_model |-> Opt(o, "model"),
              synthesis_input_tokens |-> Opt(token_usage, "input_tokens"),
              synthesis_output_tokens |-> Opt(token_usage, "output_tokens"),
              synthesis_cost_usd |-> Opt(o, "cost_usd") ]

\* Mutant: the counts default to 0 instead of None.
extract_evidence_data_Zero(t) ==
    IF ~HasStage(t, "collection")
    THEN [ evidence_collected |-> {0}, evidence_passed |-> {0},
           evidence_filtered |-> {0} ]
    ELSE [ evidence_collected |-> Opt(StageOf(t, "collection").evidence, "collected_count"),
           evidence_passed |-> Opt(StageOf(t, "collection").outputs, "evidence_passed"),
           evidence_filtered |-> Opt(StageOf(t, "collection").outputs, "evidence_filtered") ]

\* _extract_evidence_data
extract_evidence_data(t) ==
    IF ~HasStage(t, "collection")
    THEN [ evidence_collected |-> Null, evidence_passed |-> Null,
           evidence_filtered |-> Null ]
    ELSE [ evidence_collected |-> Opt(StageOf(t, "collection").evidence, "collected_count"),
           evidence_passed |-> Opt(StageOf(t, "collection").outputs, "evidence_passed"),
           evidence_filtered |-> Opt(StageOf(t, "collection").outputs, "evidence_filtered") ]

\* The stage-derived values write_trace_metadata extracts for its INSERT
\* (it binds principle_scores as JSON text, "{}" when the value is None).
row_projection(t) ==
    LET qg == extract_quality_gate_data(t)
        ql == extract_quality_gate_lists(t)
        sy == extract_synthesis_data(t)
        ev == extract_evidence_data(t)
    IN [ quality_gate_passed |->
             IF qg.quality_gate_passed = NONE THEN Null ELSE {qg.quality_gate_passed},
         overall_quality_score |-> qg.overall_quality_score,
         intake_duration |-> extract_stage_duration(t, "intake"),
         rubric_duration |-> extract_stage_duration(t, "rubric"),
         collection_duration |-> extract_stage_duration(t, "collection"),
         synthesis_duration |-> extract_stage_duration(t, "synthesis"),
         quality_gate_duration |-> extract_stage_duration(t, "quality_gate"),
         evidence_collected |-> ev.evidence_collected,
         evidence_passed |-> ev.evidence_passed,
         evidence_filtered |-> ev.evidence_filtered,
         synthesis_model |-> sy.synthesis_model,
         synthesis_input_tokens |-> sy.synthesis_input_tokens,
         synthesis_output_tokens |-> sy.synthesis_output_tokens,
         synthesis_cost_usd |-> sy.synthesis_cost_usd,
         principle_scores |-> ql.principle_scores,
         gap_principles |-> ql.gap_principles,
         strength_principles |-> ql.strength_principles ]

----------------------------------------------------------------------------
(* Query service (query.py), over the traces table db *)

\* sorted(...) of a set of principle ids: the ids in lexicographic order.
PrincipleOrder == << "P1", "P2", "P3" >>
RECURSIVE SortedFrom(_, _)
SortedFrom(order, S) ==
    IF order = << >> THEN << >>
    ELSE IF Head(order) \in S THEN << Head(order) >> \o SortedFrom(Tail(order), S)
    ELSE SortedFrom(Tail(order), S)
Sorted(S) == SortedFrom(PrincipleOrder, S)

\* Mutant: the size of the difference, without its sign.
Delta_Abs(x, y) ==
    IF NotNull(x) /\ NotNull(y)
    THEN {IF Val(y) >= Val(x) THEN Val(y) - Val(x) ELSE Val(x) - Val(y)}
    ELSE Null

\* (y - x) if x is not None and y is not None else None
Delta(x, y) == IF NotNull(x) /\ NotNull(y) THEN {Val(y) - Val(x)} ELSE Null

\* TraceQuery.compare(trace_id_a, trace_id_b)
compare(db, a, b) ==
    IF a \notin DOMAIN db \/ b \notin DOMAIN db
    THEN ("error" :> "One or both traces not found")
    ELSE LET gaps_a == Range(db[a].gap_principles)
             gaps_b == Range(db[b].gap_principles)
         IN [ trace_a |-> a, trace_b |-> b,
              quality_delta |-> Delta(db[a].overall_quality_score,
                                      db[b].overall_quality_score),
              duration_delta |-> Delta(db[a].duration_seconds, db[b].duration_seconds),
              cost_delta |-> Delta(db[a].synthesis_cost_usd, db[b].synthesis_cost_usd),
              gaps_a_only |-> Sorted(gaps_a \ gaps_b),
              gaps_b_only |-> Sorted(gaps_b \ gaps_a),
              gaps_both |-> Sorted(gaps_a \cap gaps_b) ]

RECURSIVE SumCol(_, _, _)
SumCol(db, ids, col) ==
    IF ids = {} THEN 0
    ELSE LET id == CHOOSE i \in ids : TRUE
         IN Val(db[id][col]) + SumCol(db, ids \ {id}, col)

\* Mutant: COALESCE(AVG(col), 0).
AvgCol_Coalesce(db, ids, col) ==
    LET nn == { id \in ids : NotNull(db[id][col]) }
    IN IF nn = {} THEN {[ sum |-> 0, n |-> 1 ]}
       ELSE {[ sum |-> SumCol(db, nn, col), n |-> Cardinality(nn) ]}

\* AVG(col) FILTER (WHERE ...) over the rows ids: NULL when no row has a
\* value, else the quotient sum / n.
AvgCol(db, ids, col) ==
    LET nn == { id \in ids : NotNull(db[id][col]) }
    IN IF nn = {} THEN Null
       ELSE {[ sum |-> SumCol(db, nn, col), n |-> Cardinality(nn) ]}

CountWhere(db, col, v) == Cardinality({ id \in DOMAIN db : db[id][col] = v })

\* The one row the aggregate query of summary() yields.
summary_row(db) ==
    LET complete == { id \in DOMAIN db : db[id].status = "complete" }
    IN [ total_runs |-> Cardinality(DOMAIN db),
         complete |-> Cardinality(complete),
         failed |-> CountWhere(db, "status", "failed"),
         incomplete |-> CountWhere(db, "status", "incomplete"),
         qg_passed |-> CountWhere(db, "quality_gate_passed", "True"),
         qg_failed |-> CountWhere(db, "quality_gate_passed", "False"),
         avg_quality |-> AvgCol(db, complete, "overall_quality_score"),
         avg_duration |-> AvgCol(db, complete, "duration_seconds"),
         avg_cost |-> AvgCol(db, complete, "synthesis_cost_usd") ]

\* TraceQuery.summary(): fetch_one yields the aggregate row, or nothing.
summary(db, absent) ==
    IF absent
    THEN [ total_runs |-> 0, complete |-> 0, failed |-> 0, incomplete |-> 0,
           qg_passed |-> 0, qg_failed |-> 0,
           avg_quality |-> Null, avg_duration |-> Null, avg_cost |-> Null ]
    ELSE summary_row(db)

\* What opening and parsing the file at a stored path can meet.
FileConds == {"ok", "OSError", "JSONDecodeError", "UnicodeDecodeError"}

\* except (json.JSONDecodeError, OSError) as e: ... return None
full_trace_catches(exc) == exc \in {"JSONDecodeError", "OSError"}

\* TraceQuery.full_trace(trace_id) over the table db and the files fs, the
\* file being in condition cond when it is opened: the parsed document,
\* None, or an exception that reaches the caller.
full_trace(db, fs, trace_id, cond) ==
    IF trace_id \notin DOMAIN db \/ ~TruthyStr(db[trace_id].trace_file_path)
    THEN ("absent" :> TRUE)
    ELSE LET file_path == db[trace_id].trace_file_path
         IN IF file_path \notin DOMAIN fs THEN ("absent" :> TRUE)
            ELSE IF cond = "ok" THEN ("document" :> fs[file_path])
            ELSE IF full_trace_catches(cond) THEN ("absent" :> TRUE)
            ELSE ("exception" :> cond)

----------------------------------------------------------------------------
(* Run context (TraceContext) *)

\* Mutant: a module-level global instead of a ContextVar.
Global_set(ctx, r, v) == [q \in DOMAIN ctx |-> v]

\* _current_trace.set(v) in task r: a ContextVar is set in the calling
\* task's own context only.
ContextVar_set(ctx, r, v) == [ctx EXCEPT ![r] = v]

\* TraceContext.current() in task r.
TraceContext_current(r) == current[r]

NoHist == [ started |-> {}, iterCalls |-> 0, falsyCalls |-> 0,
            lastError |-> NONE, outputsSetSince |-> FALSE, failed |-> {},
            exit |-> NONE, exitStatus |-> NONE,
            startOrder |-> << >>, createOrder |-> << >>,
            recorded |-> [s \in StageNames |-> << >>] ]

\* The stage names in the order of their first mention.
Noted(order, s) ==
    IF \E i \in DOMAIN order : order[i] = s THEN order ELSE Append(order, s)

\* caller: "direct", or "traced" while the frame of traced_research is alive;
\* block: the local `trace` of that frame; pending: the exception the frame
\* re-raises after its finally block.
NoFin == [ k |-> NoTrace, result |-> EmptyMap, tried |-> {},
           caller |-> "direct", block |-> NoTrace, pending |-> NONE ]

\* TraceContext.start(enabled=...) in task r.  The identifier is fresh: the
\* timestamp and random suffix are taken not to collide.
StartTrace(r, enabled) ==
    /\ pc[r] = "idle"
    /\ LET k == Len(traces) + 1
       IN /\ traces' = Append(traces, IF enabled THEN NewTrace(TraceId(k))
                                                 ELSE NoOpTrace)
          /\ owner' = Append(owner, r)
          /\ hist' = Append(hist, NoHist)
          /\ current' = ContextVar_set(current, r, k)
          /\ expect' = [expect EXCEPT ![r] = k]
    /\ UNCHANGED <<ret, rows, files>>

\* trace = TraceContext.start(enabled=...), called by task r outside any wrapper.
Start(r, enabled) ==
    /\ StartTrace(r, enabled)
    /\ UNCHANGED <<pc, fin>>

\* A recording call by task r on its own trace k (single-writer discipline),
\* made while r is not suspended inside finish(): outside any wrapper, or in
\* the body of an `async with traced_research(...)` block.
Rec(r, k, t2, h2) ==
    /\ pc[r] \in {"idle", "body"}
    /\ k \in DOMAIN traces
    /\ owner[k] = r
    /\ traces' = [traces EXCEPT ![k] = t2]
    /\ hist' = [hist EXCEPT ![k] = h2]
    /\ UNCHANGED <<owner, current, pc, fin, ret, rows, files, expect>>

StartStage(r, k, s) ==
    Rec(r, k, start_stage(traces[k], s),
        [hist[k] EXCEPT !.started = @ \cup {s},
                        !.startOrder = Noted(@, s),
                        !.createOrder = Noted(@, s),
                        !.recorded[s] = << >>])

EndStage(r, k, s, o, e) ==
    Rec(r, k, end_stage(traces[k], s, o, e), hist[k])

Record(r, k, s, d, data) ==
    Rec(r, k, record(traces[k], s, d, data),
        [hist[k] EXCEPT !.createOrder = Noted(@, s),
                        !.recorded[s] = Append(@, d)])

RecordEvidence(r, k, s, ev) ==
    Rec(r, k, record_evidence(traces[k], s, ev),
        [hist[k] EXCEPT !.createOrder = Noted(@, s)])

RecordPrompts(r, k, s, p) ==
    Rec(r, k, record_prompts(traces[k], s, p),
        [hist[k] EXCEPT !.createOrder = Noted(@, s)])

RecordIteration(r, k, d) ==
    Rec(r, k, record_iteration(traces[k], d),
        [hist[k] EXCEPT !.iterCalls = @ + 1,
                        !.falsyCalls = IF "passed" \in DOMAIN d /\ Falsy(d["passed"])
                                       THEN @ + 1 ELSE @])

SetOutputs(r, k, o) ==
    Rec(r, k, set_outputs(traces[k], o),
        [hist[k] EXCEPT !.outputsSetSince = TRUE])

MarkComplete(r, k) ==
    Rec(r, k, mark_complete(traces[k]), hist[k])

MarkFailed(r, k, e) ==
    Rec(r, k, mark_failed(traces[k], e),
        [hist[k] EXCEPT !.lastError = e, !.outputsSetSince = FALSE])

MarkIncomplete(r, k) ==
    Rec(r, k, mark_incomplete(traces[k]), hist[k])

----------------------------------------------------------------------------
(* TraceContext.finish, one action per stretch between await points *)

NoopResult == ("saved" :> FALSE) @@ ("reason" :> "tracing_disabled")

\* Mutant: the binding is cleared only when the row write succeeded.
FinishReturn_NoClearOnError(r, result) ==
    /\ current' = IF "supabase_error" \in DOMAIN result THEN current
                  ELSE [current EXCEPT ![r] = NoTrace]
    /\ expect' = [expect EXCEPT ![r] = NoTrace]
    /\ ret' = [ret EXCEPT ![r] = result]
    /\ pc' = [pc EXCEPT ![r] = IF fin[r].caller = "traced" THEN "leave" ELSE "idle"]
    /\ fin' = [fin EXCEPT ![r] = [NoFin EXCEPT !.caller = fin[r].caller,
                                               !.block = fin[r].block,
                                               !.pending = fin[r].pending]]

\* Mutant: the binding goes back to the latest earlier trace of the task.
FinishReturn_RestorePrevious(r, result) ==
    /\ LET earlier == { j \in DOMAIN traces : owner[j] = r /\ j < current[r] }
       IN current' = [current EXCEPT ![r] =
                          IF earlier = {} THEN NoTrace
                          ELSE CHOOSE j \in earlier : \A i \in earlier : i <= j]
    /\ expect' = [expect EXCEPT ![r] = NoTrace]
    /\ ret' = [ret EXCEPT ![r] = result]
    /\ pc' = [pc EXCEPT ![r] = IF fin[r].caller = "traced" THEN "leave" ELSE "idle"]
    /\ fin' = [fin EXCEPT ![r] = [NoFin EXCEPT !.caller = fin[r].caller,
                                               !.block = fin[r].block,
                                               !.pending = fin[r].pending]]

\* The end of finish(): clear the binding of the calling task and return.
FinishReturn(r, result) ==
    /\ current' = ContextVar_set(current, r, NoTrace)
    /\ expect' = [expect EXCEPT ![r] = NoTrace]
    /\ ret' = [ret EXCEPT ![r] = result]
    /\ pc' = [pc EXCEPT ![r] = IF fin[r].caller = "traced" THEN "leave" ELSE "idle"]
    /\ fin' = [fin EXCEPT ![r] = [NoFin EXCEPT !.caller = fin[r].caller,
                                               !.block = fin[r].block,
                                               !.pending = fin[r].pending]]

\* Mutant: finish marks every trace incomplete.
Demote_Always(t) == mark_incomplete(t)

\* if trace.status == "in_progress": trace.mark_incomplete()
Demote(t) == IF t.status = "in_progress" THEN mark_incomplete(t) ELSE t

\* Mutant: no isinstance test, the no-op trace is persisted like any other.
FinishEnter_NoIsInstance(r, k, t0, fileOk) ==
    /\ k \in DOMAIN traces
    /\ owner[k] = r
    /\ LET t1 == Demote(t0)
           res0 == ("trace_id" :> t1.trace_id) @@ ("status" :> t1.status)
           res1 == IF fileOk THEN Put(res0, "file_path", TracePath(t1))
                             ELSE Put(res0, "file_error", "error")
           t2 == IF fileOk
                 THEN [t1 EXCEPT !.outputs = Put(@, "trace_file_path", TracePath(t1))]
                 ELSE t1
       IN /\ traces' = [traces EXCEPT ![k] = t2]
          /\ files' = IF fileOk THEN Put(files, TracePath(t1), write_trace_file(t1))
                                ELSE files
          /\ fin' = [fin EXCEPT ![r].k = k, ![r].result = res1, ![r].tried = {"file"}]
          /\ pc' = [pc EXCEPT ![r] = "fin_row"]
          /\ UNCHANGED <<current, expect, ret, rows>>
    /\ UNCHANGED owner

\* Mutant: the artifact file is written only when there is none yet.
FinishEnter_KeepFile(r, k, t0, fileOk) ==
    /\ k \in DOMAIN traces
    /\ owner[k] = r
    /\ IF t0.noop
       THEN /\ FinishReturn(r, NoopResult)
            /\ traces' = [traces EXCEPT ![k] = t0]
            /\ UNCHANGED <<rows, files>>
       ELSE LET t1 == Demote(t0)
                res0 == ("trace_id" :> t1.trace_id) @@ ("status" :> t1.status)
                res1 == IF fileOk THEN Put(res0, "file_path", TracePath(t1))
                                  ELSE Put(res0, "file_error", "error")
                t2 == IF fileOk
                      THEN [t1 EXCEPT !.outputs = Put(@, "trace_file_path", TracePath(t1))]
                      ELSE t1
            IN /\ traces' = [traces EXCEPT ![k] = t2]
               /\ files' = IF fileOk /\ TracePath(t1) \notin DOMAIN files
                           THEN Put(files, TracePath(t1), write_trace_file(t1))
                           ELSE files
               /\ fin' = [fin EXCEPT ![r].k = k, ![r].result = res1, ![r].tried = {"file"}]
               /\ pc' = [pc EXCEPT ![r] = "fin_row"]
               /\ UNCHANGED <<current, expect, ret, rows>>
    /\ UNCHANGED owner

\* finish(trace), entered by task r with the trace holding t0, up to the
\* first await: the no-op return, or the demotion of an in_progress trace,
\* the result map and the artifact write.
FinishEnter(r, k, t0, fileOk) ==
    /\ k \in DOMAIN traces
    /\ owner[k] = r
    /\ IF t0.noop
       THEN /\ FinishReturn(r, NoopResult)
            /\ traces' = [traces EXCEPT ![k] = t0]
            /\ UNCHANGED <<rows, files>>
       ELSE LET t1 == Demote(t0)
                res0 == ("trace_id" :> t1.trace_id) @@ ("status" :> t1.status)
                res1 == IF fileOk THEN Put(res0, "file_path", TracePath(t1))
                                  ELSE Put(res0, "file_error", "error")
                t2 == IF fileOk
                      THEN [t1 EXCEPT !.outputs = Put(@, "trace_file_path", TracePath(t1))]
                      ELSE t1
            IN /\ traces' = [traces EXCEPT ![k] = t2]
               /\ files' = IF fileOk THEN Put(files, TracePath(t1), write_trace_file(t1))
                                     ELSE files
               /\ fin' = [fin EXCEPT ![r].k = k, ![r].result = res1, ![r].tried = {"file"}]
               /\ pc' = [pc EXCEPT ![r] = "fin_row"]
               /\ UNCHANGED <<current, expect, ret, rows>>
    /\ UNCHANGED owner

\* await TraceContext.finish(trace), called by task r outside any wrapper.
FinishBegin(r, k, fileOk) ==
    /\ pc[r] = "idle"
    /\ k \in DOMAIN traces
    /\ FinishEnter(r, k, traces[k], fileOk)
    /\ UNCHANGED hist

\* Mutant: the row write is skipped when the artifact write failed.
FinishRow_SkipAfterFileError(r, rowOk, sumOk) ==
    /\ pc[r] = "fin_row"
    /\ LET t == traces[fin[r].k]
           skip == "file_error" \in DOMAIN fin[r].result
           inserted == ~skip /\ rowOk /\ t.trace_id \notin DOMAIN rows
           res1 == IF skip THEN fin[r].result
                   ELSE IF inserted THEN Put(fin[r].result, "supabase", "saved")
                   ELSE Put(fin[r].result, "supabase_error", "error")
           res2 == IF sumOk THEN Put(res1, "summary_file", SummaryPath(t)) ELSE res1
       IN /\ rows' = IF inserted THEN Put(rows, t.trace_id, RowOf(t)) ELSE rows
          /\ files' = IF sumOk THEN Put(files, SummaryPath(t), "summary") ELSE files
          /\ fin' = [fin EXCEPT ![r].result = res2,
                                ![r].tried = IF skip THEN @ ELSE @ \cup {"row"}]
    /\ pc' = [pc EXCEPT ![r] = "fin_calib"]
    /\ UNCHANGED <<traces, owner, current, expect, ret, hist>>

\* The row insert (rejected when it raises or when the trace_id, which is
\* UNIQUE, is already stored), then the summary print and summary file.
\* Mutant: INSERT ... ON CONFLICT (trace_id) DO UPDATE, a second finish of a
\* trace rewrites its row.
FinishRow_Upsert(r, rowOk, sumOk) ==
    /\ pc[r] = "fin_row"
    /\ LET t == traces[fin[r].k]
           res1 == IF rowOk THEN Put(fin[r].result, "supabase", "saved")
                            ELSE Put(fin[r].result, "supabase_error", "error")
           res2 == IF sumOk THEN Put(res1, "summary_file", SummaryPath(t)) ELSE res1
       IN /\ rows' = IF rowOk THEN Put(rows, t.trace_id, RowOf(t)) ELSE rows
          /\ files' = IF sumOk THEN Put(files, SummaryPath(t), "summary") ELSE files
          /\ fin' = [fin EXCEPT ![r].result = res2, ![r].tried = @ \cup {"row"}]
    /\ pc' = [pc EXCEPT ![r] = "fin_calib"]
    /\ UNCHANGED <<traces, owner, current, expect, ret, hist>>

FinishRow(r, rowOk, sumOk) ==
    /\ pc[r] = "fin_row"
    /\ LET t == traces[fin[r].k]
           inserted == rowOk /\ t.trace_id \notin DOMAIN rows
           res1 == IF inserted THEN Put(fin[r].result, "supabase", "saved")
                               ELSE Put(fin[r].result, "supabase_error", "error")
           res2 == IF sumOk THEN Put(res1, "summary_file", SummaryPath(t)) ELSE res1
       IN /\ rows' = IF inserted THEN Put(rows, t.trace_id, RowOf(t)) ELSE rows
          /\ files' = IF sumOk THEN Put(files, SummaryPath(t), "summary") ELSE files
          /\ fin' = [fin EXCEPT ![r].result = res2, ![r].tried = @ \cup {"row"}]
    /\ pc' = [pc EXCEPT ![r] = "fin_calib"]
    /\ UNCHANGED <<traces, owner, current, expect, ret, hist>>

\* The calibration check: it cannot be run at all ("raise"), all of its
\* lookups raise and are skipped ("lookup_error"), or it runs ("ok").  The
\* check leaves its appends in the trace.  Without flags finish clears the
\* binding and returns.
FinishCalib(r, outcome) ==
    /\ pc[r] = "fin_calib"
    /\ LET k == fin[r].k
           t == traces[k]
           chk == check_calibration_flags(t, rows,
                      IF outcome = "lookup_error" THEN Lookups ELSE {})
           flags == IF outcome = "raise" \/ chk.raised THEN << >> ELSE chk.flags
           res == Put(fin[r].result, "calibration_flags", flags)
       IN /\ traces' = IF outcome = "raise" THEN traces
                        ELSE [traces EXCEPT ![k] = calibration_trace(t)]
          /\ IF flags = << >>
             THEN FinishReturn(r, res)
             ELSE /\ fin' = [fin EXCEPT ![r].result = res,
                                        ![r].tried = @ \cup {"calibration"}]
                  /\ pc' = [pc EXCEPT ![r] = "fin_flag"]
                  /\ UNCHANGED <<current, expect, ret>>
    /\ UNCHANGED <<owner, rows, files, hist>>

\* With flags: UPDATE traces SET flagged_for_review = TRUE WHERE trace_id = $1
\* (no row matched is no error), then the alert file, whose content is kept
\* as the set of trace ids it has an entry for; then clear and return.
FinishFlag(r, updOk, alertOk) ==
    /\ pc[r] = "fin_flag"
    /\ LET t == traces[fin[r].k]
           id == t.trace_id
           res == IF updOk THEN Put(fin[r].result, "flagged_for_review", TRUE)
                           ELSE fin[r].result
       IN /\ rows' = IF updOk /\ id \in DOMAIN rows
                     THEN [rows EXCEPT ![id].flagged_for_review = TRUE] ELSE rows
          /\ files' = IF alertOk
                      THEN Put(files, AlertPath, Get(files, AlertPath, {}) \cup {id})
                      ELSE files
          /\ FinishReturn(r, res)
    /\ UNCHANGED <<traces, owner, hist>>

----------------------------------------------------------------------------
(* traced_research: `async with traced_research(...) as trace: body` *)

\* The local variable `trace` of the traced_research frame of task r.
BlockTrace(r) == fin[r].block

\* Entering the block: TraceContext.start, then the body runs.
TracedEnter(r, enabled) ==
    /\ StartTrace(r, enabled)
    /\ pc' = [pc EXCEPT ![r] = "body"]
    /\ fin' = [fin EXCEPT ![r] = [NoFin EXCEPT !.caller = "traced",
                                               !.block = Len(traces) + 1]]

\* Mutant: an exception of the body is recorded like a normal return.
AfterBody_NoExcept(t, how) ==
    IF how \in {"return", "exception"}
    THEN (IF t.status = "in_progress" THEN mark_complete(t) ELSE t)
    ELSE t

\* The trace after the try statement around the yield: on a normal return
\* mark_complete if still in_progress; on an Exception mark_failed(str(e));
\* a cancellation (a BaseException) passes both clauses.
AfterBody(t, how) ==
    IF how = "return"
    THEN (IF t.status = "in_progress" THEN mark_complete(t) ELSE t)
    ELSE IF how = "exception" THEN mark_failed(t, "exc")
    ELSE t

Pending(how) ==
    IF how = "exception" THEN "exc"
    ELSE IF how = "cancel" THEN "CancelledError" ELSE NONE

\* The body ends: it returns, raises an Exception or is cancelled.
TracedBodyExit(r, how) ==
    /\ pc[r] = "body"
    /\ LET k == BlockTrace(r)
       IN /\ traces' = [traces EXCEPT ![k] = AfterBody(@, how)]
          /\ hist' = [hist EXCEPT ![k].exit = how,
                                  ![k].exitStatus = traces[k].status,
                                  ![k].lastError =
                                      IF how = "exception" THEN "exc" ELSE @,
                                  ![k].outputsSetSince =
                                      IF how = "exception" THEN FALSE ELSE @]
    /\ pc' = [pc EXCEPT ![r] = "finally"]
    /\ fin' = [fin EXCEPT ![r].pending = Pending(how)]
    /\ UNCHANGED <<owner, current, ret, rows, files, expect>>

\* finally: await TraceContext.finish(trace), up to its first await.
TracedFinally(r, fileOk) ==
    /\ pc[r] = "finally"
    /\ FinishEnter(r, BlockTrace(r), traces[BlockTrace(r)], fileOk)
    /\ UNCHANGED hist

\* finish has returned: the block re-raises the pending exception, or
\* completes; the caller sees ret[r].
TracedLeave(r) ==
    /\ pc[r] = "leave"
    /\ pc' = [pc EXCEPT ![r] = "idle"]
    /\ ret' = [ret EXCEPT ![r] = ("raised" :> fin[r].pending)]
    /\ fin' = [fin EXCEPT ![r] = NoFin]
    /\ UNCHANGED <<traces, owner, current, rows, files, hist, expect>>

----------------------------------------------------------------------------
(* Direct calls of the analysis functions *)

\* flags = await check_calibration_flags(trace), called by task r with the
\* lookups in fail raising; hist records fail.
CheckCalibration(r, k, fail) ==
    /\ pc[r] = "idle"
    /\ k \in DOMAIN traces
    /\ owner[k] = r
    /\ LET chk == check_calibration_flags(traces[k], rows, fail)
       IN /\ traces' = [traces EXCEPT ![k] = calibration_trace(@)]
          /\ ret' = [ret EXCEPT ![r] =
                        IF chk.raised THEN ("exception" :> "raised")
                        ELSE ("calibration_flags" :> chk.flags)]
    /\ hist' = [hist EXCEPT ![k].failed = fail]
    /\ UNCHANGED <<owner, current, pc, fin, rows, files, expect>>

\* result = await TraceQuery.compare(a, b), called by task r.
Compare(r, a, b) ==
    /\ pc[r] = "idle"
    /\ ret' = [ret EXCEPT ![r] = compare(rows, a, b)]
    /\ UNCHANGED <<traces, owner, current, pc, fin, rows, files, hist, expect>>

\* result = await TraceQuery.summary(), called by task r.
Summary(r, absent) ==
    /\ pc[r] = "idle"
    /\ ret' = [ret EXCEPT ![r] = summary(rows, absent)]
    /\ UNCHANGED <<traces, owner, current, pc, fin, rows, files, hist, expect>>

\* The parameters of the INSERT, computed by task r for its trace k.
Project(r, k) ==
    /\ pc[r] = "idle"
    /\ k \in DOMAIN traces
    /\ owner[k] = r
    /\ ret' = [ret EXCEPT ![r] = row_projection(traces[k])]
    /\ UNCHANGED <<traces, owner, current, pc, fin, rows, files, hist, expect>>

\* doc = await TraceQuery.full_trace(trace_id), called by task r.
FullTrace(r, trace_id, cond) ==
    /\ pc[r] = "idle"
    /\ ret' = [ret EXCEPT ![r] = full_trace(rows, files, trace_id, cond)]
    /\ UNCHANGED <<traces, owner, current, pc, fin, rows, files, hist, expect>>

----------------------------------------------------------------------------
(* Initial state: no trace yet; the traces table is empty or holds the     *)
(* rows of three earlier completed runs that all list principle P1 as gap  *)

HistRow(id) ==
    [ trace_id |-> id, project_id |-> NONE, intent |-> NONE, domain |-> NONE,
      status |-> "complete", quality_gate_passed |-> "False",
      overall_quality_score |-> Null,
      gap_principles |-> << "P1" >>, started_at |-> T_PREV,
      duration_seconds |-> Null, synthesis_cost_usd |-> Null,
      iteration_count |-> 1, quality_gate_failures |-> 0,
      trace_file_path |-> NONE, flagged_for_review |-> FALSE ]

History == [ id \in {"h1", "h2", "h3"} |-> HistRow(id) ]

InitWith(db) ==
    /\ traces = << >>
    /\ owner = << >>
    /\ hist = << >>
    /\ current = [r \in Runs |-> NoTrace]
    /\ expect = [r \in Runs |-> NoTrace]
    /\ pc = [r \in Runs |-> "idle"]
    /\ fin = [r \in Runs |-> NoFin]
    /\ ret = [r \in Runs |-> EmptyMap]
    /\ rows = db
    /\ files = EmptyMap
    /\ calls = 0

Init == \E db \in {EmptyMap, History} : InitWith(db)

InitEmpty == InitWith(EmptyMap)

----------------------------------------------------------------------------
(* Inputs *)

Errors == {"e1", "e2"}
ReportOut == ("report_path" :> "report.md")
QGOut == ("passed" :> "False") @@ ("gap_principles" :> << "P1" >>)
OutA == ("a" :> "1")
OutB == ("b" :> "2") @@ ("a" :> "3")
EndArgs == { <<NoneArg, NONE>>, <<Some(OutA), NONE>>, <<Some(OutB), "boom">>,
             <<Some(EmptyMap), "">> }
DecisionArgs == { <<"d1", EmptyMap>>,
                  <<"d2", ("what" :> "x") @@ ("why" :> "y") @@ ("confidence" :> "0.5")>> }
IterArgs == { ("passed" :> "True"), ("passed" :> "False"), ("passed" :> "None"),
              ("iteration" :> "1") }
Ev1 == ("collected" :> "10")
Pr1 == ("system_prompt" :> "p")

Traces == DOMAIN traces

----------------------------------------------------------------------------
(* Spec: one logical run, its traces, and the whole finish pipeline with   *)
(* every combination of failures                                           *)

MainRun == CHOOSE r \in Runs : \A q \in Runs : r <= q

\* A recording or finish call within the call budget.
Call(A) == calls < MaxCalls /\ A /\ calls' = calls + 1

DoStart ==
    \E en \in BOOLEAN :
        traces = << >> /\ Start(MainRun, en) /\ UNCHANGED calls
DoMarkComplete ==
    \E k \in Traces : Call(MarkComplete(MainRun, k))
DoMarkFailed ==
    \E k \in Traces, e \in Errors : Call(MarkFailed(MainRun, k, e))
DoMarkIncomplete ==
    \E k \in Traces : Call(MarkIncomplete(MainRun, k))
DoSetOutputs ==
    \E k \in Traces, o \in {EmptyMap, ReportOut} : Call(SetOutputs(MainRun, k, o))
DoStartStage ==
    \E k \in Traces : Call(StartStage(MainRun, k, QG))
DoEndStage ==
    \E k \in Traces : Call(EndStage(MainRun, k, QG, Some(QGOut), NONE))
DoFinishBegin ==
    \E k \in Traces, ok \in BOOLEAN : Call(FinishBegin(MainRun, k, ok))
DoFinishRow ==
    \E rowOk \in BOOLEAN, sumOk \in BOOLEAN :
        FinishRow(MainRun, rowOk, sumOk) /\ UNCHANGED calls
DoFinishCalib ==
    \E o \in {"raise", "lookup_error", "ok"} :
        FinishCalib(MainRun, o) /\ UNCHANGED calls
DoFinishFlag ==
    \E updOk \in BOOLEAN, alertOk \in BOOLEAN :
        FinishFlag(MainRun, updOk, alertOk) /\ UNCHANGED calls

Next ==
    \/ DoStart \/ DoMarkComplete \/ DoMarkFailed \/ DoMarkIncomplete
    \/ DoSetOutputs \/ DoStartStage \/ DoEndStage
    \/ DoFinishBegin \/ DoFinishRow \/ DoFinishCalib \/ DoFinishFlag

Spec == Init /\ [][Next]_vars

----------------------------------------------------------------------------
(* SpecCtx: concurrent logical runs, each an asyncio task that starts,     *)
(* records into and finishes its own traces, interleaved at every await    *)

CtxStart ==
    \E r \in Runs, en \in BOOLEAN :
        Len(traces) < MaxTraces /\ Call(Start(r, en))
CtxMarkComplete ==
    \E r \in Runs, k \in Traces :
        traces[k].status = "in_progress" /\ Call(MarkComplete(r, k))
CtxFinishBegin ==
    \E r \in Runs, k \in Traces, ok \in BOOLEAN :
        Call(FinishBegin(r, k, ok))
CtxFinishRow ==
    \E r \in Runs, rowOk \in BOOLEAN :
        FinishRow(r, rowOk, TRUE) /\ UNCHANGED calls
CtxFinishCalib ==
    \E r \in Runs, o \in {"raise", "ok"} :
        FinishCalib(r, o) /\ UNCHANGED calls

NextCtx ==
    \/ CtxStart \/ CtxMarkComplete
    \/ CtxFinishBegin \/ CtxFinishRow \/ CtxFinishCalib

SpecCtx == InitEmpty /\ [][NextCtx]_vars

----------------------------------------------------------------------------
(* SpecTrace: one trace, enabled or disabled, and every sequence of        *)
(* recording calls on it                                                   *)

TrStart ==
    \E en \in BOOLEAN :
        traces = << >> /\ Start(MainRun, en) /\ UNCHANGED calls
TrStartStage ==
    \E k \in Traces, s \in StageNames : Call(StartStage(MainRun, k, s))
TrEndStage ==
    \E k \in Traces, s \in StageNames, a \in EndArgs :
        Call(EndStage(MainRun, k, s, a[1], a[2]))
TrRecord ==
    \E k \in Traces, s \in StageNames, a \in DecisionArgs :
        Call(Record(MainRun, k, s, a[1], a[2]))
TrRecordEvidence ==
    \E k \in Traces, s \in StageNames : Call(RecordEvidence(MainRun, k, s, Ev1))
TrRecordPrompts ==
    \E k \in Traces, s \in StageNames : Call(RecordPrompts(MainRun, k, s, Pr1))
TrRecordIteration ==
    \E k \in Traces, d \in IterArgs : Call(RecordIteration(MainRun, k, d))
TrSetOutputs ==
    \E k \in Traces, o \in {EmptyMap, ReportOut} : Call(SetOutputs(MainRun, k, o))
TrMarkComplete ==
    \E k \in Traces : Call(MarkComplete(MainRun, k))
TrMarkFailed ==
    \E k \in Traces, e \in Errors : Call(MarkFailed(MainRun, k, e))
TrMarkIncomplete ==
    \E k \in Traces : Call(MarkIncomplete(MainRun, k))

NextTrace ==
    \/ TrStart \/ TrStartStage \/ TrEndStage \/ TrRecord \/ TrRecordEvidence
    \/ TrRecordPrompts \/ TrRecordIteration \/ TrSetOutputs
    \/ TrMarkComplete \/ TrMarkFailed \/ TrMarkIncomplete

SpecTrace == InitEmpty /\ [][NextTrace]_vars

----------------------------------------------------------------------------
(* SpecTraced: a logical run whose work is wrapped in traced_research,     *)
(* with every sequence of recording calls in the body, every way the body  *)
(* can end and every failure of the persistence steps of finish            *)

BodyExits == {"return", "exception", "cancel"}

TdEnter ==
    \E r \in {MainRun}, en \in BOOLEAN :
        traces = << >> /\ TracedEnter(r, en) /\ UNCHANGED calls
TdStartStage ==
    \E r \in {MainRun} : Call(StartStage(r, BlockTrace(r), QG))
TdEndStage ==
    \E r \in {MainRun} : Call(EndStage(r, BlockTrace(r), QG, Some(QGOut), NONE))
TdMarkComplete ==
    \E r \in {MainRun} : Call(MarkComplete(r, BlockTrace(r)))
TdMarkFailed ==
    \E r \in {MainRun} : Call(MarkFailed(r, BlockTrace(r), "e1"))
TdBodyExit ==
    \E r \in {MainRun}, how \in BodyExits :
        TracedBodyExit(r, how) /\ UNCHANGED calls
TdFinally ==
    \E r \in {MainRun}, ok \in BOOLEAN : TracedFinally(r, ok) /\ UNCHANGED calls
TdFinishRow ==
    \E r \in {MainRun}, rowOk \in BOOLEAN :
        FinishRow(r, rowOk, TRUE) /\ UNCHANGED calls
TdFinishCalib ==
    \E r \in {MainRun}, o \in {"raise", "ok"} :
        FinishCalib(r, o) /\ UNCHANGED calls
TdFinishFlag ==
    \E r \in {MainRun}, updOk \in BOOLEAN :
        FinishFlag(r, updOk, TRUE) /\ UNCHANGED calls
TdLeave ==
    \E r \in {MainRun} : TracedLeave(r) /\ UNCHANGED calls

NextTraced ==
    \/ TdEnter \/ TdStartStage \/ TdEndStage \/ TdMarkComplete \/ TdMarkFailed
    \/ TdBodyExit \/ TdFinally \/ TdFinishRow \/ TdFinishCalib \/ TdFinishFlag
    \/ TdLeave

SpecTraced == InitWith(History) /\ [][NextTraced]_vars

----------------------------------------------------------------------------
(* SpecRows: concurrent logical runs over a traces table that already      *)
(* holds rows; each run records a failed quality gate and finishes its own *)
(* traces, possibly more than once, interleaved at every await             *)

RwStart ==
    \E r \in Runs :
        Len(traces) < MaxTraces /\ Call(Start(r, TRUE))
RwStartStage ==
    \E r \in Runs, k \in Traces : Call(StartStage(r, k, QG))
RwEndStage ==
    \E r \in Runs, k \in Traces :
        Call(EndStage(r, k, QG, Some(QGOut), NONE))
RwFinishBegin ==
    \E r \in Runs, k \in Traces : Call(FinishBegin(r, k, TRUE))
RwFinishRow ==
    \E r \in Runs, rowOk \in BOOLEAN :
        FinishRow(r, rowOk, TRUE) /\ UNCHANGED calls
RwFinishCalib ==
    \E r \in Runs, o \in {"raise", "ok"} :
        FinishCalib(r, o) /\ UNCHANGED calls
RwFinishFlag ==
    \E r \in Runs, updOk \in BOOLEAN :
        FinishFlag(r, updOk, TRUE) /\ UNCHANGED calls

NextRows ==
    \/ RwStart \/ RwStartStage \/ RwEndStage
    \/ RwFinishBegin \/ RwFinishRow \/ RwFinishCalib \/ RwFinishFlag

SpecRows == InitWith(History) /\ [][NextRows]_vars

----------------------------------------------------------------------------
(* SpecFile: one trace built through the recording API, with native and    *)
(* non-native values, and written by finish                                *)

FileOutputs == { ReportOut, ("report_path" :> PATH_OBJ) }
FileEvidence == { Ev1, ("collected_at" :> DT) }
FileDecisions == DecisionArgs \cup { <<"d3", ("what" :> PATH_OBJ)>> }

FlStart ==
    traces = << >> /\ Start(MainRun, TRUE) /\ UNCHANGED calls
FlStartStage ==
    \E k \in Traces, s \in StageNames : Call(StartStage(MainRun, k, s))
FlEndStage ==
    \E k \in Traces, o \in FileOutputs :
        Call(EndStage(MainRun, k, "intake", Some(o), NONE))
FlRecord ==
    \E k \in Traces, a \in FileDecisions :
        Call(Record(MainRun, k, "intake", a[1], a[2]))
FlRecordEvidence ==
    \E k \in Traces, ev \in FileEvidence :
        Call(RecordEvidence(MainRun, k, "intake", ev))
FlRecordPrompts ==
    \E k \in Traces : Call(RecordPrompts(MainRun, k, "intake", Pr1))
FlSetOutputs ==
    \E k \in Traces, o \in FileOutputs : Call(SetOutputs(MainRun, k, o))
FlFinishBegin ==
    \E k \in Traces, ok \in BOOLEAN : Call(FinishBegin(MainRun, k, ok))
FlFinishRow ==
    \E rowOk \in BOOLEAN : FinishRow(MainRun, rowOk, TRUE) /\ UNCHANGED calls
FlFinishCalib ==
    FinishCalib(MainRun, "ok") /\ UNCHANGED calls

NextFile ==
    \/ FlStart \/ FlStartStage \/ FlEndStage \/ FlRecord \/ FlRecordEvidence
    \/ FlRecordPrompts \/ FlSetOutputs
    \/ FlFinishBegin \/ FlFinishRow \/ FlFinishCalib

SpecFile == InitEmpty /\ [][NextFile]_vars

----------------------------------------------------------------------------
(* SpecCalib: check_calibration_flags applied to a finished trace, for     *)
(* every shape of the quality-gate outputs, several contents of the traces *)
(* table and every set of failing lookups                                  *)

NoMeta == [ intent |-> NONE, domain |-> NONE, project_id |-> NONE ]
Metas == { NoMeta,
           [ intent |-> "validating", domain |-> NONE, project_id |-> NONE ],
           [ intent |-> "validating", domain |-> "edtech", project_id |-> "proj" ] }

\* Quality-gate outputs: scores as a list of records (with a record without
\* id, one without score and an element that is no dict), as a flat map,
\* absent; the explicit gap list non-empty, empty, absent.
QGList ==
    ("passed" :> "False") @@ ("overall_score" :> 14)
    @@ ("gap_principles" :> << "P1" >>)
    @@ ("principle_scores" :>
           ScoreList(<< Item(("id" :> "P2") @@ ("score" :> 1)),
                        Item(("id" :> "P1") @@ ("score" :> 0)),
                        Item(("id" :> "P3") @@ ("score" :> 3)),
                        Item(("score" :> 1)),
                        Item(("id" :> "P3")),
                        NotADict >>))
QGMap ==
    ("passed" :> "True") @@ ("overall_score" :> 28)
    @@ ("principle_scores" :> ScoreMap(<< Entry("P2", 1), Entry("P3", 2) >>))
QGMapGap ==
    ("passed" :> "False")
    @@ ("gap_principles" :> << "P1" >>)
    @@ ("principle_scores" :> ScoreMap(<< Entry("P1", 0), Entry("P2", 1) >>))
QGEmptyGap ==
    ("gap_principles" :> << >>)
    @@ ("principle_scores" :> ScoreMap(<< Entry("P2", 0) >>))
QGShapes == { QGList, QGMap, QGMapGap, QGEmptyGap, QGOut }

\* A trace as the pipeline leaves it: started with the metadata m, the
\* quality_gate stage started and ended with the outputs o, marked complete.
WithMeta(t, m) ==
    [t EXCEPT !.intent = m.intent, !.domain = m.domain, !.project_id = m.project_id]
ScoredTrace(m, o) ==
    Trace_mark_complete(
        Trace_end_stage(Trace_start_stage(WithMeta(NewTrace(TraceId(1)), m), QG),
                        QG, Some(o), NONE))
CalibTraces ==
    { ScoredTrace(m, o) : m \in Metas, o \in QGShapes }
        \cup { Trace_mark_complete(WithMeta(NewTrace(TraceId(1)), m)) : m \in Metas }

\* Rows of earlier runs.
PastRow(id, project_id, intent, domain, status, passed, score, gaps, started) ==
    [ trace_id |-> id, project_id |-> project_id, intent |-> intent,
      domain |-> domain, status |-> status, quality_gate_passed |-> passed,
      overall_quality_score |-> score, gap_principles |-> gaps,
      started_at |-> started, duration_seconds |-> Null,
      synthesis_cost_usd |-> Null,
      iteration_count |-> 1, quality_gate_failures |-> 0,
      trace_file_path |-> NONE, flagged_for_review |-> FALSE ]
PastRows ==
    ("r1" :> PastRow("r1", "proj", "validating", "edtech", "complete", "True",
                     {15}, << "P1", "P2" >>, T_PREV))
    @@ ("r2" :> PastRow("r2", NONE, "other", "edtech", "complete", "False",
                        {30}, << "P1", "P2" >>, T_PREV))
    @@ ("r3" :> PastRow("r3", "proj", "other", "other", "complete", "False",
                        {25}, << "P3", "P1" >>, T_OLD))
    @@ ("r4" :> PastRow("r4", NONE, "validating", "other", "complete", NONE,
                        {20}, << "P1" >>, T_PREV))
    @@ ("r5" :> PastRow("r5", "proj", "validating", "edtech", "failed", "True",
                        {5}, << "P1", "P2" >>, T_PREV))
    @@ ("r6" :> PastRow("r6", NONE, NONE, NONE, "complete", NONE,
                        Null, << "P2" >>, T_PREV))
    @@ ("r7" :> PastRow("r7", NONE, "other", "other", "complete", "True",
                        {21}, << >>, T_OLD))
    @@ ("r8" :> PastRow("r8", "proj", NONE, NONE, "complete", "True",
                        Null, << >>, T_OLD))
    @@ ("r9" :> PastRow("r9", "proj", NONE, NONE, "complete", NONE,
                        Null, << >>, T_PREV))
    @@ ("r10" :> PastRow("r10", "proj", NONE, NONE, "complete", "True",
                         Null, << >>, TS))
Restrict(f, S) == [ x \in S |-> f[x] ]
CalibDbs ==
    { Restrict(PastRows, S) :
        S \in { {}, {"r1", "r2"}, {"r2", "r4"}, {"r1", "r2", "r4"}, {"r3"},
                {"r1", "r3"}, {"r2", "r4", "r5"}, {"r1", "r7"},
                {"r1", "r3", "r7"}, {"r8", "r9"}, {"r3", "r10"},
                {"r1", "r2", "r3", "r4", "r5", "r6", "r7"} } }

InitCalib ==
    \E t \in CalibTraces, db \in CalibDbs :
        /\ traces = << t >>
        /\ owner = << MainRun >>
        /\ hist = << [NoHist EXCEPT !.started = StageKeys(t)] >>
        /\ current = [r \in Runs |-> IF r = MainRun THEN 1 ELSE NoTrace]
        /\ expect = [r \in Runs |-> IF r = MainRun THEN 1 ELSE NoTrace]
        /\ pc = [r \in Runs |-> "idle"]
        /\ fin = [r \in Runs |-> NoFin]
        /\ ret = [r \in Runs |-> EmptyMap]
        /\ rows = db
        /\ files = EmptyMap
        /\ calls = 0

\* The function is applied once to each input.
CalibCheck ==
    \E k \in Traces, fail \in SUBSET Lookups :
        /\ calls = 0
        /\ CheckCalibration(MainRun, k, fail)
        /\ calls' = calls + 1

NextCalib == CalibCheck

SpecCalib == InitCalib /\ [][NextCalib]_vars

----------------------------------------------------------------------------
(* SpecQuery: the read-side queries applied to several contents of the     *)
(* traces table, the empty one included                                    *)

QueryRows ==
    [Restrict(PastRows, {"r1", "r2", "r3", "r4", "r5", "r6"})
              EXCEPT !["r1"].duration_seconds = {120},
                     !["r1"].synthesis_cost_usd = {3},
                     !["r2"].duration_seconds = {90},
                     !["r3"].synthesis_cost_usd = {7},
                     !["r4"].status = "incomplete",
                     !["r4"].duration_seconds = {45}]
QueryDbs == { Restrict(QueryRows, S) : S \in SUBSET DOMAIN QueryRows }

InitQuery == \E db \in QueryDbs : InitWith(db)

\* Each query is applied once to each content of the table.
QCompare ==
    \E a \in DOMAIN QueryRows, b \in DOMAIN QueryRows :
        calls = 0 /\ Compare(MainRun, a, b) /\ calls' = calls + 1
\* fetch_one yields no row only for the empty table.
QSummary ==
    \E absent \in BOOLEAN :
        /\ calls = 0
        /\ absent => rows = EmptyMap
        /\ Summary(MainRun, absent)
        /\ calls' = calls + 1

NextQuery == QCompare \/ QSummary

SpecQuery == InitQuery /\ [][NextQuery]_vars

----------------------------------------------------------------------------
(* SpecProj: the row projection applied to traces holding any subset of    *)
(* the five stages it reads                                                *)

SynthOut ==
    ("model" :> "m1") @@ ("cost_usd" :> 3)
    @@ ("token_usage" :> (("input_tokens" :> 100) @@ ("output_tokens" :> 50)))
CollEv == ("collected_count" :> 10)
CollOut == ("evidence_passed" :> 8) @@ ("evidence_filtered" :> 2)
QGFull == QGList @@ ("strength_principles" :> << "P3" >>)

\* start_stage(s) ... end_stage(s, outputs)
Ended(t, s, o) == Trace_end_stage(Trace_start_stage(t, s), s, o, NONE)

\* The trace of a run that went through the stages S, the quality gate
\* ending with the outputs qg.
ProjTrace(S, qg) ==
    LET t0 == NewTrace(TraceId(1))
        t1 == IF "intake" \in S THEN Ended(t0, "intake", NoneArg) ELSE t0
        t2 == IF "rubric" \in S THEN Ended(t1, "rubric", NoneArg) ELSE t1
        t3 == IF "collection" \in S
              THEN Trace_end_stage(
                       Trace_record_evidence(Trace_start_stage(t2, "collection"),
                                             "collection", CollEv),
                       "collection", Some(CollOut), NONE)
              ELSE t2
        t4 == IF "synthesis" \in S THEN Ended(t3, "synthesis", Some(SynthOut)) ELSE t3
        t5 == IF QG \in S THEN Ended(t4, QG, Some(qg)) ELSE t4
    IN Trace_mark_complete(t5)

ProjOutputs == { QGFull, QGMap, QGOut }

InitProj ==
    \E S \in SUBSET ProjStages, qg \in ProjOutputs :
        /\ traces = << ProjTrace(S, qg) >>
        /\ owner = << MainRun >>
        /\ hist = << [NoHist EXCEPT !.started = S] >>
        /\ current = [r \in Runs |-> IF r = MainRun THEN 1 ELSE NoTrace]
        /\ expect = [r \in Runs |-> IF r = MainRun THEN 1 ELSE NoTrace]
        /\ pc = [r \in Runs |-> "idle"]
        /\ fin = [r \in Runs |-> NoFin]
        /\ ret = [r \in Runs |-> EmptyMap]
        /\ rows = EmptyMap
        /\ files = EmptyMap
        /\ calls = 0

\* The function is applied once to each input.
PjProject ==
    \E k \in Traces : calls = 0 /\ Project(MainRun, k) /\ calls' = calls + 1

NextProj == PjProject

SpecProj == InitProj /\ [][NextProj]_vars

----------------------------------------------------------------------------
(* SpecRead: full_trace applied to tables whose rows have a stored path or *)
(* none, with the file there or not, readable and parseable or not         *)

ReadRows ==
    [Restrict(PastRows, {"r1", "r2", "r3", "r4"})
         EXCEPT !["r1"].trace_file_path = "unknown/_traces/r1.json",
                !["r2"].trace_file_path = "unknown/_traces/r2.json",
                !["r4"].trace_file_path = ""]
ReadDbs == { Restrict(ReadRows, S) : S \in SUBSET DOMAIN ReadRows }
ReadFiles ==
    ("unknown/_traces/r1.json" :> write_trace_file(NewTrace("r1")))
    @@ ("unknown/_traces/r2.json" :>
           write_trace_file(Trace_mark_complete(NewTrace("r2"))))
ReadFss == { Restrict(ReadFiles, S) : S \in SUBSET DOMAIN ReadFiles }

InitRead ==
    \E db \in ReadDbs, fs \in ReadFss :
        /\ traces = << >> /\ owner = << >> /\ hist = << >>
        /\ current = [r \in Runs |-> NoTrace]
        /\ expect = [r \in Runs |-> NoTrace]
        /\ pc = [r \in Runs |-> "idle"]
        /\ fin = [r \in Runs |-> NoFin]
        /\ ret = [r \in Runs |-> EmptyMap]
        /\ rows = db
        /\ files = fs
        /\ calls = 0

\* The function is applied once to each input.
RdFullTrace ==
    \E id \in DOMAIN ReadRows, cond \in FileConds :
        calls = 0 /\ FullTrace(MainRun, id, cond) /\ calls' = calls + 1

NextRead == RdFullTrace

SpecRead == InitRead /\ [][NextRead]_vars

----------------------------------------------------------------------------
(* Properties *)

Terminal == {"complete", "failed", "incomplete"}
Enabled(k) == ~traces[k].noop
InFinish(r) == pc[r] \in {"fin_row", "fin_calib", "fin_flag"}
\* The result map of a finish() of an enabled trace that returned in task r.
Returned(r) == "trace_id" \in DOMAIN ret[r]

\* C1 (SpecCtx): in every interleaving of concurrent runs, current() in run r
\* is the trace run r itself bound last (absent once its own finish cleared
\* it), never a trace of another run; no step of another run changes it.
C1_Isolation ==
    \A r \in Runs :
        /\ TraceContext_current(r) = expect[r]
        /\ TraceContext_current(r) # NoTrace => owner[TraceContext_current(r)] = r

\* A run still sees its own trace after another run, started later, has
\* finished its trace and cleared its own binding.
C1_Witness ==
    \E r1, r2 \in Runs :
        /\ r1 # r2
        /\ current[r1] # NoTrace /\ Enabled(current[r1])
        /\ current[r2] = NoTrace /\ Returned(r2)
        /\ \E k \in Traces : owner[k] = r2 /\ k > current[r1]

\* C2 (Spec): in finish() of an enabled trace both writes are attempted
\* whatever the other did; the result holds exactly one of file_path /
\* file_error and exactly one of supabase = "saved" / supabase_error, a
\* success key only when the write took effect; finish can always go on.
C2_Result(res, t) ==
    /\ ("file_path" \in DOMAIN res) # ("file_error" \in DOMAIN res)
    /\ ("supabase" \in DOMAIN res) # ("supabase_error" \in DOMAIN res)
    /\ "supabase" \in DOMAIN res => res["supabase"] = "saved" /\ t.trace_id \in DOMAIN rows
    /\ "file_path" \in DOMAIN res =>
           res["file_path"] = TracePath(t) /\ TracePath(t) \in DOMAIN files
C2_IndependentWrites ==
    \A r \in Runs :
        /\ pc[r] \in {"fin_calib", "fin_flag"} =>
               /\ {"file", "row"} \subseteq fin[r].tried
               /\ C2_Result(fin[r].result, traces[fin[r].k])
        /\ Returned(r) =>
               \E k \in Traces : /\ traces[k].trace_id = ret[r]["trace_id"]
                                 /\ C2_Result(ret[r], traces[k])
        /\ pc[r] = "fin_row" => ENABLED DoFinishRow
        /\ pc[r] = "fin_calib" => ENABLED DoFinishCalib
        /\ pc[r] = "fin_flag" => ENABLED DoFinishFlag

\* finish returned after the artifact write failed and the row write succeeded.
C2_Witness ==
    /\ Returned(MainRun)
    /\ "file_error" \in DOMAIN ret[MainRun]
    /\ "supabase" \in DOMAIN ret[MainRun]

\* C3 (Spec): once finish() has returned in a run, and until that run starts
\* a trace again, current() is absent there, whichever of the file write, row
\* write, summary, calibration check and review-flag update failed; the
\* result of an enabled trace holds its trace identifier and its status.
C3_ClearedAndReported ==
    \A r \in Runs :
        /\ (pc[r] = "idle" /\ expect[r] = NoTrace) => TraceContext_current(r) = NoTrace
        /\ (ret[r] # EmptyMap /\ ret[r] # NoopResult) =>
               /\ {"trace_id", "status"} \subseteq DOMAIN ret[r]
               /\ \E k \in Traces : /\ owner[k] = r /\ Enabled(k)
                                    /\ traces[k].trace_id = ret[r]["trace_id"]
               /\ ret[r]["status"] \in Terminal

\* finish returned although the file write, the row write, the summary and
\* the review-flag update all failed.
C3_Witness ==
    /\ pc[MainRun] = "idle" /\ current[MainRun] = NoTrace
    /\ Returned(MainRun)
    /\ {"file_error", "supabase_error"} \subseteq DOMAIN ret[MainRun]
    /\ "summary_file" \notin DOMAIN ret[MainRun]
    /\ ret[MainRun]["calibration_flags"] # << >>
    /\ "flagged_for_review" \notin DOMAIN ret[MainRun]

\* C4 (Spec): entering finish() turns an in_progress trace incomplete and
\* leaves every other status as it is; no later step of finish changes the
\* status; the status in the result map is the trace's status at the return.
C4_FinishStatus ==
    [][ \A r \in Runs :
          /\ (pc[r] = "idle" /\ pc'[r] = "fin_row") =>
                 LET k == fin'[r].k
                 IN /\ traces'[k].status =
                          IF traces[k].status = "in_progress" THEN "incomplete"
                          ELSE traces[k].status
                    /\ fin'[r].result["status"] = traces'[k].status
          /\ InFinish(r) =>
                 /\ traces'[fin[r].k].status = traces[fin[r].k].status
                 /\ fin[r].result["status"] = traces[fin[r].k].status
          /\ (InFinish(r) /\ pc'[r] = "idle") =>
                 ret'[r]["status"] = traces'[fin[r].k].status
      ]_vars

\* finish returned "failed" for a trace that was failed before the call.
C4_Witness ==
    /\ Returned(MainRun)
    /\ ret[MainRun]["status"] = "failed"
    /\ \E k \in Traces : traces[k].status = "failed"

\* C5 (Spec), as claimed: once the status is complete, failed or incomplete
\* it never changes again.
C5_Original ==
    [][ \A k \in Traces :
          traces[k].status \in Terminal => traces'[k].status = traces[k].status
      ]_vars

\* C5 (Spec), amended: a terminal status never returns to in_progress and is
\* never changed by finish(); a later mark_complete, mark_failed or
\* mark_incomplete call does replace it by that call's own status.
C5_Amended ==
    [][ \A k \in Traces :
          traces[k].status \in Terminal =>
              /\ traces'[k].status \in Terminal
              /\ (InFinish(owner[k]) \/ pc'[owner[k]] # "idle") =>
                     traces'[k].status = traces[k].status
      ]_vars

\* A trace that was marked failed and is now complete, after a finish.
C5_Witness ==
    \E k \in Traces :
        /\ traces[k].status = "complete"
        /\ hist[k].lastError # NONE
        /\ "trace_file_path" \in DOMAIN traces[k].outputs

\* C6 (Spec), as claimed: a failed trace always holds the error string passed
\* to mark_failed under the key "error" of its outputs.
C6_Original ==
    \A k \in Traces :
        (Enabled(k) /\ traces[k].status = "failed") =>
            /\ "error" \in DOMAIN traces[k].outputs
            /\ traces[k].outputs["error"] = hist[k].lastError

\* C6 (Spec), amended: a failed trace holds the error string of the latest
\* mark_failed under "error" as long as set_outputs has not been called since
\* that mark_failed (set_outputs replaces the whole map, the error included).
C6_Amended ==
    \A k \in Traces :
        (Enabled(k) /\ traces[k].status = "failed" /\ ~hist[k].outputsSetSince) =>
            /\ "error" \in DOMAIN traces[k].outputs
            /\ traces[k].outputs["error"] = hist[k].lastError

\* A failed trace, failed twice with different errors, that went through finish.
C6_Witness ==
    \E k \in Traces :
        /\ traces[k].status = "failed" /\ ~hist[k].outputsSetSince
        /\ hist[k].lastError = "e2"
        /\ {"report_path", "trace_file_path"} \subseteq DOMAIN traces[k].outputs

\* C7 (SpecTrace), as claimed: from the fresh trace on, iteration_count is
\* the length of the iteration list, the number of record_iteration calls.
C7_Original ==
    \A k \in Traces :
        Enabled(k) =>
            /\ traces[k].iteration_count = Len(traces[k].iterations)
            /\ Len(traces[k].iterations) = hist[k].iterCalls

\* C7 (SpecTrace), amended: the iteration list has one entry per
\* record_iteration call; iteration_count is 1 on a trace with no iteration
\* recorded (its default) and the length of the list from the first call on.
C7_Amended ==
    \A k \in Traces :
        Enabled(k) =>
            /\ Len(traces[k].iterations) = hist[k].iterCalls
            /\ traces[k].iteration_count =
                   IF hist[k].iterCalls = 0 THEN 1 ELSE hist[k].iterCalls

\* Three iterations were recorded.
C7_Witness ==
    \E k \in Traces :
        Enabled(k) /\ hist[k].iterCalls = 3 /\ traces[k].iteration_count = 3

\* C8 (SpecTrace): quality_gate_failures is the number of record_iteration
\* calls whose data carried a falsy pass flag (a call without the flag counts
\* as passed), and it never exceeds iteration_count.
C8_FailureCount ==
    \A k \in Traces :
        Enabled(k) =>
            /\ traces[k].quality_gate_failures = hist[k].falsyCalls
            /\ traces[k].quality_gate_failures <= traces[k].iteration_count

\* A call without pass flag and a call with the falsy flag None were made.
C8_Witness ==
    \E k \in Traces :
        /\ Enabled(k)
        /\ traces[k].quality_gate_failures = 1
        /\ \E i, j \in DOMAIN traces[k].iterations :
              /\ "passed" \notin DOMAIN traces[k].iterations[i]
              /\ "passed" \in DOMAIN traces[k].iterations[j]
              /\ traces[k].iterations[j]["passed"] = "None"

\* No stage holds a completion timestamp unless start_stage was called for it.
NoPhantomStage(k) ==
    \A i \in DOMAIN traces[k].stages :
        traces[k].stages[i].completed_at # NONE =>
            traces[k].stages[i].name \in hist[k].started

\* C9 (SpecTrace), as claimed: end_stage for a stage name start_stage was
\* never called for changes nothing in the trace, and no stage is ever
\* completed without having been started.
C9_EndUnstartedIsNoOp ==
    [][ \A k \in Traces, s \in StageNames, a \in EndArgs :
          (Enabled(k) /\ s \notin hist[k].started
                      /\ EndStage(owner[k], k, s, a[1], a[2])) =>
              /\ traces'[k] = traces[k]
              /\ NoPhantomStage(k)'
      ]_vars

\* C10 (SpecTrace): whatever recording calls are made on the disabled trace,
\* all of its fields stay as constructed: no stage, no output, no iteration,
\* status "disabled".
C10_NoOpUnchanged ==
    \A k \in Traces :
        traces[k].noop =>
            /\ traces[k] = NoOpTrace
            /\ traces[k].stages = << >> /\ traces[k].outputs = EmptyMap
            /\ traces[k].status = "disabled"

\* On a disabled trace start_stage, record_iteration, mark_failed and then
\* set_outputs were called, among five calls.
C10_Witness ==
    \E k \in Traces :
        /\ traces[k].noop
        /\ calls = 5
        /\ hist[k].started # {} /\ hist[k].iterCalls > 0
        /\ hist[k].lastError # NONE /\ hist[k].outputsSetSince

\* C11 (Spec): finish() on the disabled trace returns the "not saved" result
\* (saved = FALSE, no file_path, no trace_file_path); the call writes no file
\* and no row, reaches no await (no row write, no calibration check is
\* started) and leaves the calling run's binding absent.
C11_NoopFinish ==
    [][ \A k \in Traces, ok \in BOOLEAN :
          (traces[k].noop /\ FinishBegin(MainRun, k, ok)) =>
              /\ "saved" \in DOMAIN ret'[MainRun]
              /\ ret'[MainRun]["saved"] = FALSE
              /\ DOMAIN ret'[MainRun] \cap {"file_path", "summary_file", "supabase",
                                            "calibration_flags"} = {}
              /\ files' = files /\ rows' = rows
              /\ traces'[k] = NoOpTrace
              /\ pc'[MainRun] = "idle" /\ fin'[MainRun] = NoFin
              /\ TraceContext_current(MainRun)' = NoTrace
      ]_vars

\* finish returned "not saved" for a disabled trace on which recording calls
\* had been made, and nothing was written.
C11_Witness ==
    /\ "saved" \in DOMAIN ret[MainRun]
    /\ current[MainRun] = NoTrace
    /\ \E k \in Traces : traces[k].noop /\ hist[k].lastError # NONE
    /\ files = EmptyMap
    /\ rows \in {EmptyMap, History}

\* The lookups the check that emits flag f depends on.
FlagLookups(f) ==
    IF f.kind = "repeated" THEN {LookupCount(f.subject)}
    ELSE IF f.kind = "intent_disparity" THEN {"intent_avg", "intent_overall"}
    ELSE IF f.kind = "domain_disparity" THEN {"domain_avg", "domain_overall"}
    ELSE {"previous"}
\* The flags of the list whose lookups all succeeded.
RECURSIVE Surviving(_, _)
Surviving(flags, fail) ==
    IF flags = << >> THEN << >>
    ELSE IF FlagLookups(Head(flags)) \cap fail = {}
         THEN << Head(flags) >> \o Surviving(Tail(flags), fail)
         ELSE Surviving(Tail(flags), fail)
Checked == calls' = calls + 1

C13_NoMutation ==
    [][ Checked => traces' = traces ]_vars

\* -x, None for None
Neg(x) == IF NotNull(x) THEN {0 - Val(x)} ELSE Null

\* C14 (SpecQuery): for stored rows a and b, the quality delta of
\* compare(b, a) is the negation of that of compare(a, b), both None exactly
\* when a score is None; the a-only and b-only gap lists are swapped and the
\* list of common gaps is the same.
C14_AntiSymmetric ==
    [][ \A a \in DOMAIN rows, b \in DOMAIN rows :
          Compare(MainRun, a, b) =>
              LET fwd == ret'[MainRun]
                  back == compare(rows, b, a)
              IN /\ back.quality_delta = Neg(fwd.quality_delta)
                 /\ (fwd.quality_delta = Null) <=>
                        (rows[a].overall_quality_score = Null
                             \/ rows[b].overall_quality_score = Null)
                 /\ back.gaps_a_only = fwd.gaps_b_only
                 /\ back.gaps_b_only = fwd.gaps_a_only
                 /\ back.gaps_both = fwd.gaps_both
                 /\ Range(fwd.gaps_a_only) =
                        Range(rows[a].gap_principles) \ Range(rows[b].gap_principles)
      ]_vars

\* compare returned a non-zero quality delta and non-empty a-only, b-only
\* and common gap lists.
C14_Witness ==
    /\ "quality_delta" \in DOMAIN ret[MainRun]
    /\ NotNull(ret[MainRun].quality_delta)
    /\ Val(ret[MainRun].quality_delta) < 0
    /\ ret[MainRun].gaps_a_only # << >>
    /\ ret[MainRun].gaps_b_only # << >>
    /\ ret[MainRun].gaps_both # << >>

\* C18 (SpecQuery): on the empty traces table summary() returns total_runs
\* 0, every other count 0 and None for the three averages, whether the
\* driver hands back the aggregate row or nothing; it returns no error.
C18_EmptySummary ==
    [][ \A absent \in BOOLEAN :
          (rows = EmptyMap /\ Summary(MainRun, absent)) =>
              LET res == ret'[MainRun]
              IN /\ DOMAIN res \cap {"error", "exception"} = {}
                 /\ res.total_runs = 0
                 /\ res.complete = 0 /\ res.failed = 0 /\ res.incomplete = 0
                 /\ res.qg_passed = 0 /\ res.qg_failed = 0
                 /\ res.avg_quality = Null /\ res.avg_duration = Null
                 /\ res.avg_cost = Null
      ]_vars

\* summary() returned for the empty table.
C18_Witness ==
    /\ rows = EmptyMap
    /\ "total_runs" \in DOMAIN ret[MainRun]
    /\ ret[MainRun].total_runs = 0
    /\ calls = 1

----------------------------------------------------------------------------
\* C15: when a traced_research block exits, whichever way its body ended
\* (return, exception, cancellation), finish has run on the block's trace and
\* returned, the binding of the run is absent, and an enabled trace has a
\* terminal status: complete after a return from in_progress, failed after an
\* exception, incomplete after a cancellation from in_progress; the exception
\* or the cancellation is re-raised to the caller, a return raises nothing.
\* The no-op trace of a disabled run keeps status "disabled" and finish
\* returns the "not saved" result for it.


BlockExit(r) == pc[r] = "leave" /\ pc'[r] = "idle"

C15_FinishOnEveryExit ==
    [][\A r \in Runs :
        BlockExit(r) =>
            LET k == BlockTrace(r)
                t == traces'[k]
                h == hist[k]
            IN /\ h.exit \in BodyExits
               /\ current'[r] = NoTrace
               /\ ret'[r] = ("raised" :> Pending(h.exit))
               /\ IF t.noop
                  THEN /\ t.status = "disabled"
                       /\ ret[r] = NoopResult
                  ELSE /\ ret[r]["trace_id"] = t.trace_id
                       /\ ret[r]["status"] = t.status
                       /\ t.status \in Terminal
                       /\ (h.exit = "return" /\ h.exitStatus = "in_progress")
                              => t.status = "complete"
                       /\ h.exit = "exception" => t.status = "failed"
                       /\ (h.exit = "cancel" /\ h.exitStatus = "in_progress")
                              => t.status = "incomplete"
    ]_vars

\* A block whose body raised has exited: the trace is failed and persisted,
\* the binding is absent and the exception has reached the caller.
C15_Witness ==
    \E r \in Runs :
        /\ pc[r] = "idle"
        /\ ret[r] = ("raised" :> "exc")
        /\ current[r] = NoTrace
        /\ \E k \in DOMAIN traces :
              /\ owner[k] = r /\ hist[k].exit = "exception"
              /\ hist[k].exitStatus = "complete"
              /\ traces[k].status = "failed"
              /\ traces[k].trace_id \in DOMAIN rows

----------------------------------------------------------------------------
\* C16: across all runs and interleavings, every step leaves every row of
\* the traces table in place and unchanged in every column but the review
\* flag; a new row enters with the review flag false; a review flag changes
\* only from false to true, and only in the step in which a finish whose
\* calibration check returned at least one flag issues its UPDATE for its
\* own trace id.
Flipping(r, id) ==
    /\ pc[r] = "fin_flag"
    /\ traces[fin[r].k].trace_id = id
    /\ fin[r].result["calibration_flags"] # << >>
    /\ pc'[r] = "idle"

C16_InsertOnly ==
    [][/\ DOMAIN rows \subseteq DOMAIN rows'
       /\ \A id \in DOMAIN rows' \ DOMAIN rows :
              ~ rows'[id].flagged_for_review
       /\ \A id \in DOMAIN rows :
              /\ [rows'[id] EXCEPT !.flagged_for_review = FALSE]
                     = [rows[id] EXCEPT !.flagged_for_review = FALSE]
              /\ rows[id].flagged_for_review => rows'[id].flagged_for_review
              /\ rows'[id].flagged_for_review # rows[id].flagged_for_review
                     => \E r \in Runs : Flipping(r, id)
    ]_vars

\* A trace was finished and its row flagged; a second finish of the same
\* trace has had its INSERT refused and the flagged row is still there.
C16_Witness ==
    \E k \in DOMAIN traces, r \in Runs :
        /\ pc[r] = "fin_calib"
        /\ fin[r].k = k
        /\ "supabase_error" \in DOMAIN fin[r].result
        /\ traces[k].trace_id \in DOMAIN rows
        /\ rows[traces[k].trace_id].flagged_for_review

----------------------------------------------------------------------------
\* C17 (as stated): in the step in which finish writes the file of a trace,
\* the document read back from the file has the schema version, the
\* identifier, every stage with its decisions, evidence, prompts and outputs,
\* and the trace-level outputs, each equal to what the trace holds from the
\* recording calls.
Written(r, k) ==
    /\ pc[r] = "idle" /\ pc'[r] = "fin_row" /\ fin'[r].k = k
    /\ "file_path" \in DOMAIN fin'[r].result

json_load(path) == files'[path]

ReadAs(recorded, read) ==
    IF recorded = DT THEN read = "2026-01-01 00:00:00"
    ELSE IF recorded = PATH_OBJ THEN read = "report.md"
    ELSE read = recorded

DictReadAs(recorded, read) ==
    /\ DOMAIN read = DOMAIN recorded
    /\ \A key \in DOMAIN recorded : ReadAs(recorded[key], read[key])

----------------------------------------------------------------------------
\* C19 (as stated): in an enabled trace the decision list of a stage holds
\* the decisions of the record() calls made for the stage (since the stage
\* was last started) in call order, to_dict() emits them in that order, and
\* the stages are iterated in the order in which each name was first started.
DecisionNames(ds) == [ j \in DOMAIN ds |-> ds[j].decision ]
StageOrder(stages) == [ i \in DOMAIN stages |-> stages[i].name ]

DecisionsInCallOrder(k) ==
    \A i \in DOMAIN traces[k].stages :
        LET st == traces[k].stages[i]
        IN /\ DecisionNames(st.decisions) = hist[k].recorded[st.name]
           /\ DecisionNames(to_dict(traces[k]).stages[i].decisions)
                  = hist[k].recorded[st.name]

C19_Original ==
    \A k \in Traces :
        Enabled(k) =>
            /\ DecisionsInCallOrder(k)
            /\ StageOrder(traces[k].stages) = hist[k].startOrder

\* C19 (amended): the decisions are as stated; the stages are iterated, and
\* emitted by to_dict(), in the order in which each stage name was first
\* created, by start_stage or by a record, record_evidence or record_prompts
\* call that auto-created the stage.
C19_Amended ==
    \A k \in Traces :
        Enabled(k) =>
            /\ DecisionsInCallOrder(k)
            /\ StageOrder(traces[k].stages) = hist[k].createOrder
            /\ StageOrder(to_dict(traces[k]).stages) = hist[k].createOrder

\* A stage that a record() call created before another stage was started,
\* started itself afterwards, holds two decisions in call order.
C19_Witness ==
    \E k \in Traces :
        /\ Enabled(k)
        /\ hist[k].createOrder = << QG, "intake" >>
        /\ hist[k].startOrder = << "intake", QG >>
        /\ hist[k].recorded["intake"] = << "d2", "d1" >>

----------------------------------------------------------------------------
\* C20 (as stated): end_stage(s, outputs, error) on a started stage merges
\* the supplied outputs into the outputs the stage holds (every key of both,
\* the supplied value winning on a common key); without outputs the map, and
\* without an error the error, stay as they are.
EndsStarted(k, s, a) ==
    /\ Enabled(k) /\ s \in hist[k].started
    /\ EndStage(owner[k], k, s, a[1], a[2])

Supplied(o) == IF o.none THEN EmptyMap ELSE o.v

C20_Original ==
    [][ \A k \in Traces, s \in StageNames, a \in EndArgs :
          EndsStarted(k, s, a) =>
              LET old == StageOf(traces[k], s)
                  new == StageOf(traces'[k], s)
                  sup == Supplied(a[1])
              IN /\ DOMAIN new.outputs = DOMAIN old.outputs \cup DOMAIN sup
                 /\ \A key \in DOMAIN new.outputs :
                       new.outputs[key] = IF key \in DOMAIN sup THEN sup[key]
                                          ELSE old.outputs[key]
                 /\ a[2] = NONE => new.error = old.error
      ]_vars

\* C20 (amended): outputs that are a non-empty map replace the stage's whole
\* output map, None and {} leave it as it is; an error that is a non-empty
\* string replaces the stage's error, None and "" leave it as it is.
C20_Amended ==
    [][ \A k \in Traces, s \in StageNames, a \in EndArgs :
          EndsStarted(k, s, a) =>
              LET old == StageOf(traces[k], s)
                  new == StageOf(traces'[k], s)
                  sup == Supplied(a[1])
              IN /\ new.outputs = IF sup = EmptyMap THEN old.outputs ELSE sup
                 /\ new.error = IF a[2] \in {NONE, ""} THEN old.error ELSE a[2]
      ]_vars

\* end_stage(s, {b: 2, a: 3}, "boom") and then end_stage(s, {a: 1}) were
\* called on a started stage: key b is gone, the error is still there.
C20_Witness ==
    \E k \in Traces, s \in StageNames :
        /\ Enabled(k) /\ s \in hist[k].started
        /\ StageOf(traces[k], s).outputs = OutA
        /\ StageOf(traces[k], s).error = "boom"

----------------------------------------------------------------------------
\* C21 (SpecCalib): when no lookup fails, the repeated-failure flags of a
\* trace with a quality_gate stage name exactly the candidate categories
\* (the explicit gap list, plus the categories scored below 2 in the list of
\* records or in the flat map) whose count over the complete rows of the
\* last seven days is at least 3, each with that count; a trace without the
\* stage gets no flag at all.
LowScored(ps) ==
    IF ps.shape = "list"
    THEN { ps.list[i].d["id"] : i \in { j \in DOMAIN ps.list :
               /\ ps.list[j].isdict
               /\ {"id", "score"} \subseteq DOMAIN ps.list[j].d
               /\ ps.list[j].d["score"] < 2 } }
    ELSE IF ps.shape = "dict"
    THEN { ps.map[i].id : i \in { j \in DOMAIN ps.map : ps.map[j].score < 2 } }
    ELSE {}

Candidates(o) ==
    Range(Get(o, "gap_principles", << >>))
        \cup LowScored(Get(o, "principle_scores", NoScores))

TrailingCount(p) ==
    Cardinality({ id \in DOMAIN rows :
                    /\ \E i \in DOMAIN rows[id].gap_principles :
                          rows[id].gap_principles[i] = p
                    /\ rows[id].started_at \in {T_PREV, TS}
                    /\ rows[id].status = "complete" })

Repeated(flags) == { flags[i] : i \in { j \in DOMAIN flags : flags[j].kind = "repeated" } }

C21_RepeatedFailure ==
    [][ \A k \in Traces :
          (Checked /\ hist'[k].failed = {}) =>
              LET flags == ret'[MainRun]["calibration_flags"]
              IN IF ~HasStage(traces[k], QG) THEN flags = << >>
                 ELSE LET cand == Candidates(StageOf(traces[k], QG).outputs)
                      IN /\ { f.subject : f \in Repeated(flags) }
                                = { p \in cand : TrailingCount(p) >= 3 }
                         /\ \A f \in Repeated(flags) :
                                f.count = TrailingCount(f.subject)
      ]_vars

\* A check without failures flagged an explicit gap with count 3 and left a
\* category that only its score below 2 makes a candidate, counted twice,
\* unflagged.
C21_Witness ==
    \E k \in Traces :
        /\ calls = 1 /\ hist[k].failed = {}
        /\ HasStage(traces[k], QG)
        /\ "P2" \in LowScored(Get(StageOf(traces[k], QG).outputs,
                                  "principle_scores", NoScores))
        /\ TrailingCount("P2") = 2
        /\ Repeated(ret[MainRun]["calibration_flags"]) = { Flag("repeated", "P1", 3) }

----------------------------------------------------------------------------
\* C22 (SpecCalib): when its two lookups succeed, the intent disparity flag
\* is in the result exactly when the trace has a quality_gate stage and an
\* intent, some complete scored row has that intent, and the average score
\* of all complete scored rows exceeds the average of those of the intent by
\* more than 0.5 (scores are in tenths, so by more than 5); the same for the
\* domain.  A difference of exactly 0.5 gives no flag.
ScoredRows == { id \in DOMAIN rows : rows[id].status = "complete"
                                     /\ rows[id].overall_quality_score # {} }
Total(ids) == SumScores(rows, ids)

\* avg(all) - avg(part) > 0.5, over non-empty sets of rows
ExceedsByHalf(all, part) ==
    /\ all # {} /\ part # {}
    /\ 2 * (Total(all) * Cardinality(part) - Total(part) * Cardinality(all))
           > 10 * Cardinality(all) * Cardinality(part)

HasFlag(flags, kind) == \E i \in DOMAIN flags : flags[i].kind = kind

----------------------------------------------------------------------------
\* C23 (SpecCalib): when the lookup of the previous run succeeds, the
\* regression flag is in the result exactly when the quality_gate outputs of
\* the trace hold passed = False, the trace has a project id and a start
\* time, and the latest complete row of that project that started strictly
\* before the trace has quality_gate_passed = True.  No flag when that row
\* failed or has no pass value, when there is no such row, or when the pass
\* value of the trace is absent.
EarlierRuns(t) ==
    { id \in DOMAIN rows : /\ rows[id].project_id = t.project_id
                           /\ rows[id].status = "complete"
                           /\ rows[id].started_at # NONE
                           /\ TimeRank(rows[id].started_at) < TimeRank(t.started_at) }

Latest(ids) ==
    { id \in ids : \A o \in ids :
                      TimeRank(rows[o].started_at) <= TimeRank(rows[id].started_at) }

C23_Regression ==
    [][ \A k \in Traces :
          (Checked /\ "previous" \notin hist'[k].failed) =>
              LET t == traces[k]
                  flags == ret'[MainRun]["calibration_flags"]
              IN HasFlag(flags, "regression") <=>
                     /\ HasStage(t, QG)
                     /\ "passed" \in DOMAIN StageOf(t, QG).outputs
                     /\ StageOf(t, QG).outputs["passed"] = "False"
                     /\ t.project_id \notin {NONE, ""}
                     /\ t.started_at \notin {NONE, ""}
                     /\ \E id \in Latest(EarlierRuns(t)) :
                           rows[id].quality_gate_passed = "True"
      ]_vars

\* A failed run of a project whose previous complete run passed, an older
\* one having failed, is flagged as a regression.
C23_Witness ==
    \E k \in Traces :
        /\ calls = 1 /\ hist[k].failed = {}
        /\ DOMAIN rows = {"r1", "r3"}
        /\ traces[k].project_id = "proj"
        /\ HasFlag(ret[MainRun]["calibration_flags"], "regression")

----------------------------------------------------------------------------
\* C24 (SpecRead), as claimed: full_trace(id) returns None and raises
\* nothing when the row is missing, the row has no stored path, the file is
\* missing, or the file cannot be read or parsed; in every other case it
\* returns the document stored at the path.
C24_AbsentNeverRaises ==
    [][ \A id \in DOMAIN ReadRows, cond \in FileConds :
          FullTrace(MainRun, id, cond) =>
              IF \/ id \notin DOMAIN rows
                 \/ rows[id].trace_file_path \in {NONE, ""}
                 \/ rows[id].trace_file_path \notin DOMAIN files
                 \/ cond # "ok"
              THEN ret'[MainRun] = ("absent" :> TRUE)
              ELSE ret'[MainRun] = ("document" :> files[rows[id].trace_file_path])
      ]_vars

----------------------------------------------------------------------------
\* C25: whichever of the five stages are absent from the trace,
\* every field projected from an absent stage is null and the fields
\* projected from the stages that are present are what they are for the
\* trace with all five stages.
StageColumns(s) ==
    IF s = "intake" THEN {"intake_duration"}
    ELSE IF s = "rubric" THEN {"rubric_duration"}
    ELSE IF s = "collection"
    THEN {"collection_duration", "evidence_collected", "evidence_passed",
          "evidence_filtered"}
    ELSE IF s = "synthesis"
    THEN {"synthesis_duration", "synthesis_model", "synthesis_input_tokens",
          "synthesis_output_tokens", "synthesis_cost_usd"}
    ELSE {"quality_gate_duration", "quality_gate_passed", "overall_quality_score",
          "principle_scores", "gap_principles", "strength_principles"}

\* The projection of the trace that has every stage of the five, the
\* quality gate with the outputs qg.
FullProjection(qg) == row_projection(ProjTrace(ProjStages, qg))

----------------------------------------------------------------------------
\* The step in which a finish() call of task r returns: the last stretch of
\* a finish of an enabled trace, or the whole finish of a no-op trace.
FinishReturns(r) ==
    \/ InFinish(r) /\ pc'[r] = "idle"
    \/ \E k \in Traces, ok \in BOOLEAN : traces[k].noop /\ FinishBegin(r, k, ok)

\* C26 (SpecCtx): when finish(trace) returns in a run, current() of that run
\* is absent, whichever trace was bound when finish was called and whichever
\* earlier traces of the run are still unfinished: the binding is cleared and
\* no earlier binding comes back.
C26_ClearsRestoresNothing ==
    [][ \A r \in Runs : FinishReturns(r) => TraceContext_current(r)' = NoTrace ]_vars

\* The main run started t1, then t2, and finish(t2) has returned while t1 was
\* never finished: current() is absent, not t1.
C26_Witness ==
    /\ Len(traces) = 2
    /\ \A k \in Traces : owner[k] = MainRun /\ Enabled(k)
    /\ traces[1].status = "in_progress"
    /\ Returned(MainRun) /\ ret[MainRun]["trace_id"] = traces[2].trace_id
    /\ pc[MainRun] = "idle"
    /\ current[MainRun] = NoTrace

\* The other order: finish(t1) has returned while t2, started after t1, was
\* the bound trace and has not been finished.
C26_FinishedEarlierTrace ==
    /\ Len(traces) = 2
    /\ \A k \in Traces : owner[k] = MainRun /\ Enabled(k)
    /\ traces[2].status = "in_progress"
    /\ Returned(MainRun) /\ ret[MainRun]["trace_id"] = traces[1].trace_id
    /\ pc[MainRun] = "idle"
    /\ current[MainRun] = NoTrace

----------------------------------------------------------------------------
\* C27 (Spec): whenever the result returned by finish reports
\* flagged_for_review, the traces table holds a row with that trace
\* identifier whose flagged_for_review is true, also when the row write of
\* the same finish call failed.
C27_FlagReportedIsStored ==
    \A r \in Runs :
        (Returned(r) /\ "flagged_for_review" \in DOMAIN ret[r]) =>
            /\ ret[r]["trace_id"] \in DOMAIN rows
            /\ rows[ret[r]["trace_id"]].flagged_for_review = TRUE

----------------------------------------------------------------------------
\* C28 (SpecRows): the traces table never gets a second row for a trace
\* identifier.  An INSERT is reported saved only when no row with the
\* identifier existed; the INSERT of a later finish of the same trace is
\* refused, leaves the table as it is and is reported as supabase_error;
\* the artifact file of that finish is the serialization of the trace as it
\* is at that finish.
RowWrite(r) == pc[r] = "fin_row" /\ pc'[r] = "fin_calib"

C28_OneRowPerTrace ==
    [][ \A r \in Runs :
          /\ RowWrite(r) =>
                LET id == traces[fin[r].k].trace_id
                IN /\ "supabase" \in DOMAIN fin'[r].result
                          => id \notin DOMAIN rows /\ id \in DOMAIN rows'
                   /\ id \in DOMAIN rows
                          => /\ rows' = rows
                             /\ "supabase_error" \in DOMAIN fin'[r].result
                             /\ "supabase" \notin DOMAIN fin'[r].result
          /\ \A k \in Traces :
                Written(r, k) =>
                    files'[TracePath(traces[k])]
                        = write_trace_file(Demote(traces[k]))
      ]_vars

\* A trace was finished, then took a quality_gate stage, and is in its
\* second finish: the INSERT was refused, the row is still the one of the
\* first finish, and the file is the serialization with the new stage.
C28_Witness ==
    \E k \in Traces, r \in Runs :
        LET t == traces[k]
        IN /\ pc[r] = "fin_calib" /\ fin[r].k = k
           /\ "supabase_error" \in DOMAIN fin[r].result
           /\ t.trace_id \in DOMAIN rows
           /\ rows[t.trace_id] # RowOf(t)
           /\ rows[t.trace_id].gap_principles = << >>
           /\ HasStage(t, QG)
           /\ files[TracePath(t)] = write_trace_file(t)

----------------------------------------------------------------------------
\* C29 (Spec): when finish is about to run the calibration check, it has
\* already attempted the row write; if that write inserted the row with
\* status complete, then for every category in the row's gap list the check
\* looks up the trailing-window count, and that count includes the row just
\* inserted (it is one more than the count without it, so at least 1).
OwnRowInserted(r) ==
    /\ pc[r] = "fin_calib"
    /\ "supabase" \in DOMAIN fin[r].result
    /\ rows[traces[fin[r].k].trace_id].status = "complete"

C29_RowBeforeCalibration ==
    \A r \in Runs :
        pc[r] = "fin_calib" =>
            /\ "row" \in fin[r].tried
            /\ "calibration" \notin fin[r].tried
            /\ OwnRowInserted(r) =>
                  LET t == traces[fin[r].k]
                      id == t.trace_id
                      others == Restrict(rows, DOMAIN rows \ {id})
                  IN \A p \in Range(rows[id].gap_principles) :
                        /\ p \in Range(gap_candidates(StageOf(t, QG).outputs))
                        /\ recent_failure_count(rows, p)
                               = recent_failure_count(others, p) + 1
                        /\ recent_failure_count(rows, p) >= 1

\* A complete trace with P1 in its gap list has had its row inserted into an
\* empty table and finish is about to run the calibration check: the count
\* for P1 is 1, the row just inserted.
C29_Witness ==
    \E r \in Runs :
        /\ OwnRowInserted(r)
        /\ DOMAIN rows = {traces[fin[r].k].trace_id}
        /\ rows[traces[fin[r].k].trace_id].gap_principles = << "P1" >>
        /\ recent_failure_count(rows, "P1") = 1

----------------------------------------------------------------------------
\* C30 (SpecTrace): in an enabled trace, every call other than start_stage(s)
\* leaves the decisions that stage s holds where they are, in the same order
\* and with the same fields, at the front of the stage's decision list;
\* start_stage(s) replaces the stage by an empty one (no decisions, evidence,
\* prompts, outputs or error), also when the stage had only been created by a
\* record, record_evidence or record_prompts call and never started.
Keeps(old, new) ==
    /\ Len(new.decisions) >= Len(old.decisions)
    /\ SubSeq(new.decisions, 1, Len(old.decisions)) = old.decisions

\* What every start_stage(s) leaves in the history of trace k (tested before
\* the action itself, which is the costlier test).
Restarted(k, s) == hist'[k].recorded[s] = << >> /\ s \in hist'[k].started

C30_DecisionsStayUntilRestart ==
    [][ \A k \in Traces, s \in StageNames :
          (Enabled(k) /\ HasStage(traces[k], s)) =>
              /\ HasStage(traces'[k], s)
              /\ LET old == StageOf(traces[k], s)
                     new == StageOf(traces'[k], s)
                 IN IF Restarted(k, s) /\ StartStage(owner[k], k, s)
                    THEN /\ new.decisions = << >>
                         /\ new.evidence = EmptyMap
                         /\ new.prompts = EmptyMap
                         /\ new.outputs = EmptyMap
                         /\ new.error = NONE
                    ELSE Keeps(old, new)
      ]_vars

\* The quality_gate stage was created by a recording call before the intake
\* stage was started, and started itself afterwards: it holds nothing of
\* what was recorded into it before its start.
C30_Witness ==
    \E k \in Traces :
        /\ Enabled(k)
        /\ hist[k].createOrder = << QG, "intake" >>
        /\ hist[k].startOrder = << "intake", QG >>
        /\ StageOf(traces[k], QG).decisions = << >>
        /\ StageOf(traces[k], QG).evidence = EmptyMap
        /\ StageOf(traces[k], QG).prompts = EmptyMap

====
